---- MODULE Spec2Model ----
(***************************************************************************)
(* Model of the KlearStack extraction pipeline of the invoice backend      *)
(* (make-server-3c4ee602/klearstack.tsx): the upload-invoice handler       *)
(* (submitDocument), the poll-status handler (checkStatusOnce) and the     *)
(* poll-completion handler (pollUntilComplete), together with the KV       *)
(* records they write, the lenient parser safeParseJSON, and the GST        *)
(* validation handler validateGST (unnamed/part_001).  One request is in   *)
(* flight at a time; a handler is cut into one action per outbound call    *)
(* (await), and each action runs the handler's code from that call up to   *)
(* the next call or to the response.                                       *)
(***************************************************************************)
EXTENDS Integers, Sequences, FiniteSets, TLC

(***************************************************************************)
(* Bounds of the model and constants of the program.                       *)
(***************************************************************************)
\* maxDuration values the caller supplies: 0, Jitter, ..., MaxDurationSteps * Jitter
MaxDurationSteps == 4

\* klearstack.tsx:698  const pollInterval = 5000
PollInterval == 5000

\* klearstack.tsx:682  maxDuration = 300000
DefaultMaxDuration == 300000

\* granularity of the time a call or a timer may take beyond its minimum
Jitter == PollInterval \div 2

\* the time a network call may take, and the time a timer may run over
Delays == {0, Jitter}

\* calls that take no time
Instant == {0}

\* a timer held up for a third of the default budget
Stall == DefaultMaxDuration \div 3

(***************************************************************************)
(* JavaScript values as far as the handlers look at them: undefined, a     *)
(* string (a sequence of characters) or a number.                          *)
(***************************************************************************)
Undef == [ty |-> "undefined", s |-> <<>>, n |-> 0]

Str(chars) == [ty |-> "string", s |-> chars, n |-> 0]

Num(k) == [ty |-> "number", s |-> <<>>, n |-> k]

\* ToBoolean of a value, as used by `||` and `!`
Truthy(v) == \/ v.ty = "string" /\ v.s # <<>>
             \/ v.ty = "number" /\ v.n # 0

\* a || b
OrElse(a, b) == IF Truthy(a) THEN a ELSE b

UpperCase == <<"A", "B", "C", "D", "E", "F", "G", "H", "I", "J", "K", "L", "M",
               "N", "O", "P", "Q", "R", "S", "T", "U", "V", "W", "X", "Y", "Z">>

LowerCase == <<"a", "b", "c", "d", "e", "f", "g", "h", "i", "j", "k", "l", "m",
               "n", "o", "p", "q", "r", "s", "t", "u", "v", "w", "x", "y", "z">>

\* the lower-case letter of each letter
LowerOf ==
    [ch \in {UpperCase[i] : i \in 1..Len(UpperCase)}
              \cup {LowerCase[i] : i \in 1..Len(LowerCase)} |->
        IF \E i \in 1..Len(UpperCase) : UpperCase[i] = ch
        THEN LowerCase[CHOOSE i \in 1..Len(UpperCase) : UpperCase[i] = ch]
        ELSE ch]

ToLowerChar(ch) == LowerOf[ch]

\* String.prototype.toLowerCase on the characters of a string
toLowerCase(chars) == [i \in 1..Len(chars) |-> ToLowerChar(chars[i])]

\* only a string has the method: on a number the call throws a TypeError
HasToLowerCase(v) == v.ty = "string"

(***************************************************************************)
(* Status classification, written twice in the source with the same text   *)
(* (poll-status 630-633, poll-completion 823-825).                         *)
(***************************************************************************)
\* data.extraction_status || data.status || data.extractionStatus || ''
ExtractionStatusOf(data) ==
    OrElse(data.extraction_status,
           OrElse(data.status, OrElse(data.extractionStatus, Str(<<>>))))

IsCompleted(v) ==
    \/ toLowerCase(v.s) = <<"c", "o", "m", "p", "l", "e", "t", "e", "d">>
    \/ toLowerCase(v.s) = <<"c", "o", "m", "p", "l", "e", "t", "e">>

IsFailed(v) ==
    \/ toLowerCase(v.s) = <<"f", "a", "i", "l", "e", "d">>
    \/ toLowerCase(v.s) = <<"e", "r", "r", "o", "r">>

\* what the if / else-if chain that follows the three tests selects; "throw"
\* when the first .toLowerCase() call raises
ClassifyStatus(data) ==
    LET v == ExtractionStatusOf(data) IN
    IF ~HasToLowerCase(v) THEN "throw"
    ELSE IF IsCompleted(v) THEN "complete"
    ELSE IF IsFailed(v) THEN "failed"
    ELSE "processing"

\* data.results && data.results.length > 0
HasResults(data) == data.results = "nonempty"

\* data.results || data.extracted_data || data.data || data   (an empty
\* array is truthy)
ExtractedDataOf(data) ==
    IF data.results # "absent" THEN "results"
    ELSE IF data.extracted_data THEN "extracted_data"
    ELSE "body"

(***************************************************************************)
(* Provider responses.  A fetch either throws (transport error) or gives   *)
(* an HTTP response; a 2xx body either fails safeParseJSON or parses to an *)
(* object whose fields are present or absent.                              *)
(***************************************************************************)
ErrCodes == {401, 503}

Fetched(net, code, parsed) == [net |-> net, code |-> code, parsed |-> parsed]

\* fetch throws / non-2xx status / 2xx with a body safeParseJSON rejects
FailedFetches ==
    {Fetched("throw", 0, FALSE), Fetched("http", 200, FALSE)}
        \cup {Fetched("http", c, FALSE) : c \in ErrCodes}

ParsedFetch == Fetched("http", 200, TRUE)

Fetches == FailedFetches \cup {ParsedFetch}

\* response.ok
Ok(resp) == resp.code >= 200 /\ resp.code <= 299

\* an access or refresh token: the endpoint that returned it and the poll
\* attempt (0 outside the loop) in which it was returned
Tok(ep, n) == [ep |-> ep, n |-> n]

NoTok == [ep |-> "undefined", n |-> 0]

\* the token fields of a parsed token body: each present or absent
TokenBodies == [access_token : BOOLEAN, refresh_token : BOOLEAN]

FullTokenBody == [access_token |-> TRUE, refresh_token |-> TRUE]

FieldTok(present, ep, n) == IF present THEN Tok(ep, n) ELSE NoTok

\* values the provider may put in a status field
StatusValues ==
    { Undef, Str(<<>>), Num(1),
      Str(<<"C", "o", "m", "p", "l", "e", "t", "e", "d">>),
      Str(<<"C", "O", "M", "P", "L", "E", "T", "E">>),
      Str(<<"F", "a", "i", "l", "e", "d">>),
      Str(<<"E", "R", "R", "O", "R">>),
      Str(<<"q", "u", "e", "u", "e", "d">>) }

StatusBody(es, st, es2, res, ed) ==
    [extraction_status |-> es, status |-> st, extractionStatus |-> es2,
     results |-> res, extracted_data |-> ed]

\* results: absent, [] or a non-empty array; extracted_data: present or not
PayloadShapes == {<<"absent", FALSE>>, <<"absent", TRUE>>,
                  <<"empty", FALSE>>, <<"nonempty", FALSE>>}

\* parsed bodies of the batch-status endpoint: at most two of the three
\* status fields in one body
StatusBodies ==
    { StatusBody(a, b, c, p[1], p[2]) :
        <<a, b, c>> \in { t \in StatusValues \X StatusValues \X StatusValues :
                            \E i \in 1..3 : t[i] = Undef },
        p \in PayloadShapes }

\* the bodies the polling loop is driven with: the status in one field
LoopStatusBodies ==
    { StatusBody(Undef, b, Undef, p[1], p[2]) :
        b \in StatusValues, p \in PayloadShapes }

\* the bodies of the long polling runs
FewStatusBodies ==
    { StatusBody(Undef, b, Undef, "nonempty", FALSE) :
        b \in { Str(<<"C", "o", "m", "p", "l", "e", "t", "e", "d">>),
                Str(<<"F", "a", "i", "l", "e", "d">>),
                Str(<<"q", "u", "e", "u", "e", "d">>) } }

NoData == StatusBody(Undef, Undef, Undef, "none", FALSE)

\* parsed bodies of the document-processing endpoint ("": field absent)
UploadBodies ==
    [OCR_ref_no : {"", "b1", "b2"}, OCR_ext_no : {"", "b1", "b2"},
     batch_id : {"", "b1", "b2"}]

(***************************************************************************)
(* Requests and responses of the handlers.                                 *)
(***************************************************************************)
Submissions == {"s1", "s2"}

\* the ids a KV key is built from: a submission, or a missing submissionId
SubmissionKeys == Submissions \cup {""}

BatchIds == {"b1", "b2"}

\* maxDuration as the caller supplies it
SuppliedDurations == {Num(k * Jitter) : k \in 0..MaxDurationSteps}

\* a handler that takes maxDuration as it comes, without the default
MaxDurationAsGiven(v) == v.n

\* const { maxDuration = 300000 } = body
MaxDurationOf(v) == IF v.ty = "undefined" THEN DefaultMaxDuration ELSE v.n

\* c.json(...): the HTTP status, and the success, status, data, batchId,
\* attempts and duration members of the body ("absent", -1: no such member)
Response(http, success, status, payload, batch, att, dur) ==
    [http |-> http, success |-> success, status |-> status,
     payload |-> payload, batchId |-> batch, attempts |-> att,
     duration |-> dur]

NoResponse == Response(0, "none", "none", "none", "", -1, -1)

\* c.json({ error: ... }, http)
ErrorResponse(http) == Response(http, "absent", "absent", "absent", "", -1, -1)

NoExtracted == [batch_id |-> "", document_data |-> "none"]

NoBatch == [batch_id |-> "", file_name |-> ""]

\* uploadData before the upload response was parsed
NoUpload == [OCR_ref_no |-> "none", OCR_ext_no |-> "none", batch_id |-> "none"]

\* parsed before safeParseJSON ran
NotParsed == [ok |-> FALSE, value |-> <<>>, error |-> "none"]

VARIABLES
    credentials,         \* KLEARSTACK_COMPANY_NAME, _USERNAME, _PASSWORD all set
    pc,                  \* where the request in flight stands
    handler,             \* the route of the request in flight
    submissionId,        \* body.submissionId
    batchId,             \* body.batchId
    maxDuration,         \* body.maxDuration
    now,                 \* Date.now()
    startTime,           \* poll-completion: startTime
    attempts,            \* poll-completion: attempts
    sleeps,              \* number of setTimeout waits of the request
    initialAccessToken,  \* tokenData.access_token
    initialRefreshToken, \* tokenData.refresh_token
    newAccessToken,      \* refreshData.access_token
    calls,               \* outbound calls of this request (of this attempt, in the loop)
    called,              \* endpoints called by this request
    data,                \* parsed body of the last status response
    result,              \* the response returned by the handler
    kvBatch,             \* KV rows klearstack_batch:<submissionId>
    kvExtracted,         \* KV rows klearstack_extracted:<submissionId>
    audit,               \* klear_responses / klear_tokens rows stored by this request
    fileData,            \* upload-invoice: what the storage download gave
    uploadData,          \* upload-invoice: parsed body of the upload response
    responseText,        \* safeParseJSON: the text it is given
    document,            \* the JSON document inside responseText
    parsed,              \* safeParseJSON: what it gave for responseText
    gstApiKey,           \* GST_API_KEY is set
    gstPc,               \* validateGST: where the request in flight stands
    vendorName,          \* validateGST: the vendorName parameter
    vendor,              \* validateGST: what the vendor_master query gave
    gstFetch,            \* validateGST: how the call of the GST API ended
    gstData,             \* validateGST: the parsed body of the GST API
    gstCalls,            \* validateGST: queries and calls of the request
    gstResult,           \* validateGST: the response
    qrPc,                \* extractQRCode / retryQRExtraction: request position
    qrRoute,             \* the route of the QR request in flight
    filePath,            \* body.file_path
    qrSubmission,        \* body.submission_id is present
    retryCount,          \* body.retry_count
    qrWaits,             \* the backoff waits of the request, in ms
    qrTimer,             \* the 30 second abort timer
    qrElapsed,           \* time since the QR API call was issued, in ms
    qrCalls,             \* storage and QR API calls of the request
    qrData,              \* what the QR API answered
    qrResult,            \* the response
    kPc,                 \* where uploadFile / createInvoice stands
    kOp,                 \* the handler of the request
    kReq,                \* the number of the request
    kStored,             \* requests whose object or row is stored
    kResponse,           \* the response of the request
    kPublish,            \* how the publish of the request went
    kProducer,           \* a Kafka producer is connected
    kTopic,              \* requests with a message on invoices.ingest
    kErrFiles,           \* requests with a file in kafka-errors
    disputes,            \* disputes_3c4ee602: the status of each dispute
    invoice,             \* the KV record of the invoice
    dPc,                 \* where each dispute request stands
    dOp,                 \* the handler of each dispute request
    dSeen,               \* the unresolved disputes each request counted
    aToken,              \* a session token was issued
    aRow,                \* the KV row session:<token> exists
    aExpiry,             \* expiresAt of the session, in ms
    aGrant,              \* the session holds the permission / role asked
    aLoggedOut,          \* logout was answered for the token
    aNow,                \* the clock of the auth routes, in ms
    aResult              \* the last response of an auth route

vars == <<credentials, pc, handler, submissionId, batchId, maxDuration, now,
          startTime, attempts, sleeps, initialAccessToken,
          initialRefreshToken, newAccessToken, calls, called, data, result,
          kvBatch, kvExtracted, audit, fileData, uploadData, responseText,
          document, parsed, gstApiKey, gstPc, vendorName, vendor, gstFetch,
          gstData, gstCalls, gstResult, qrPc, qrRoute, filePath,
          qrSubmission, retryCount, qrWaits, qrTimer, qrElapsed, qrCalls,
          qrData, qrResult, kPc, kOp, kReq, kStored, kResponse, kPublish,
          kProducer, kTopic, kErrFiles, disputes, invoice, dPc, dOp, dSeen,
          aToken, aRow, aExpiry, aGrant, aLoggedOut, aNow, aResult>>

\* locals of upload-invoice
uploadVars == <<fileData, uploadData>>

\* state of the server outside the three KlearStack routes
parseVars == <<responseText, document, parsed>>

gstVars == <<gstApiKey, gstPc, vendorName, vendor, gstFetch, gstData, gstCalls,
             gstResult>>

qrVars == <<qrPc, qrRoute, filePath, qrSubmission, retryCount, qrWaits,
            qrTimer, qrElapsed, qrCalls, qrData, qrResult>>

kafkaVars == <<kPc, kOp, kReq, kStored, kResponse, kPublish, kProducer,
               kTopic, kErrFiles>>

disputeVars == <<disputes, invoice, dPc, dOp, dSeen>>

authVars == <<aToken, aRow, aExpiry, aGrant, aLoggedOut, aNow, aResult>>

restVars == <<parseVars, gstVars, qrVars, kafkaVars, disputeVars, authVars>>

kvVars == <<kvBatch, kvExtracted>>

clockVars == <<now, startTime>>

paramVars == <<credentials, handler, submissionId, batchId, maxDuration>>

tokenVars == <<initialAccessToken, initialRefreshToken, newAccessToken>>

loopVars == <<now, startTime, attempts, sleeps>>

\* state of the three KlearStack routes
klearVars == <<credentials, pc, handler, submissionId, batchId, maxDuration,
               loopVars, tokenVars, calls, called, data, result, kvVars,
               audit, uploadVars>>

\* what a step of one handler leaves alone: the state of the others
nonParseVars ==
    <<klearVars, gstVars, qrVars, kafkaVars, disputeVars, authVars>>

nonGstVars ==
    <<klearVars, parseVars, qrVars, kafkaVars, disputeVars, authVars>>

nonQrVars ==
    <<klearVars, parseVars, gstVars, kafkaVars, disputeVars, authVars>>

nonKafkaVars ==
    <<klearVars, parseVars, gstVars, qrVars, disputeVars, authVars>>

nonDisputeVars ==
    <<klearVars, parseVars, gstVars, qrVars, kafkaVars, authVars>>

nonAuthVars ==
    <<klearVars, parseVars, gstVars, qrVars, kafkaVars, disputeVars>>

\* validateGST: vendors before the query
NoVendor == [error |-> FALSE, rows |-> "none", gst_number |-> Undef]

\* the value JSON.parse gave for the body of the GST API: null, a number or
\* string, or an object with the members the handler reads
GstBody(kind, code, status, einvoice, error) ==
    [kind |-> kind, status_code |-> code, status |-> status,
     einvoiceStatus |-> einvoice, error |-> error]

NoGstData == GstBody("none", Undef, Undef, Undef, Undef)

\* c.json(body, status): the HTTP status and the success, warning, reason,
\* error, should_extract_qr, vendor and gstin_response.raw_response members
\* ("absent": no such member)
GstReply(http, success, warning, reason, error, qr, vendorId, raw) ==
    [http |-> http, success |-> success, warning |-> warning,
     reason |-> reason, error |-> error, should_extract_qr |-> qr,
     vendor |-> vendorId, raw_response |-> raw]

NoGstReply ==
    GstReply(0, FALSE, FALSE, "none", "none", "none", "none", "none")

\* validateGST: no request in flight
GstIdle ==
    /\ gstPc = "idle"
    /\ vendorName = Undef
    /\ vendor = NoVendor
    /\ gstData = NoGstData
    /\ gstFetch = "none"
    /\ gstCalls = <<>>
    /\ gstResult = NoGstReply

\* c.json(body, status) of the QR routes: the HTTP status and the success,
\* qr_available, qr_skipped, qr_found and error members, and the member that
\* carries the provider's body ("absent": no such member)
QrReply(http, success, available, skipped, found, error, payload) ==
    [http |-> http, success |-> success, qr_available |-> available,
     qr_skipped |-> skipped, qr_found |-> found, error |-> error,
     payload |-> payload]

NoQrReply == QrReply(0, FALSE, "none", "none", "none", "none", "none")

NoQrData == [kind |-> "none", ok |-> FALSE, status |-> "absent"]

\* a response of uploadFile or createInvoice
InvoiceReply(http, success) == [http |-> http, success |-> success]

NoInvoiceReply == InvoiceReply(0, FALSE)

\* uploadFile and createInvoice: no request yet
KafkaIdle ==
    /\ kPc = "idle"
    /\ kOp = "none"
    /\ kReq = 0
    /\ kStored = {}
    /\ kResponse = NoInvoiceReply
    /\ kPublish = "none"
    /\ kProducer = FALSE
    /\ kTopic = {}
    /\ kErrFiles = {}

\* how many disputes of the invoice are followed
MaxDisputes == 2

DisputeIds == 1..MaxDisputes

\* two requests on the disputes of one invoice may be in flight together
DisputeRequests == {"r1", "r2"}

\* the dispute fields of the invoice record as the two helpers write them
InvoiceDisputed(count) ==
    [status |-> "Disputed", hasActiveDisputes |-> TRUE, disputeCount |-> count]

InvoicePending ==
    [status |-> "Pending", hasActiveDisputes |-> FALSE, disputeCount |-> 0]

\* the dispute routes: an invoice without disputes, no request in flight
DisputeIdle ==
    /\ disputes = [d \in DisputeIds |-> "none"]
    /\ invoice = InvoicePending
    /\ dPc = [r \in DisputeRequests |-> "idle"]
    /\ dOp = [r \in DisputeRequests |-> "none"]
    /\ dSeen = [r \in DisputeRequests |-> 0]

\* a response of an auth route: valid / hasPermission / hasRole as `live`,
\* and the time of the request
AuthReply(route, http, live, at) ==
    [route |-> route, http |-> http, live |-> live, at |-> at]

\* the auth routes: no token issued
AuthIdle ==
    /\ aToken = FALSE
    /\ aRow = FALSE
    /\ aExpiry = 0
    /\ aGrant = FALSE
    /\ aLoggedOut = FALSE
    /\ aNow = 0
    /\ aResult = AuthReply("none", 0, FALSE, 0)

\* the QR routes: no request in flight
QrIdle ==
    /\ qrPc = "idle"
    /\ qrRoute = "none"
    /\ filePath = Undef
    /\ qrSubmission = FALSE
    /\ retryCount = Undef
    /\ qrWaits = <<>>
    /\ qrTimer = "none"
    /\ qrElapsed = 0
    /\ qrCalls = <<>>
    /\ qrData = NoQrData
    /\ qrResult = NoQrReply

\* no request in flight, nothing stored
KlearIdle ==
    /\ pc = "idle"
    /\ handler = "none"
    /\ submissionId = ""
    /\ batchId = ""
    /\ maxDuration = Undef
    /\ now = 0
    /\ startTime = 0
    /\ attempts = 0
    /\ sleeps = 0
    /\ initialAccessToken = NoTok
    /\ initialRefreshToken = NoTok
    /\ newAccessToken = NoTok
    /\ calls = <<>>
    /\ called = {}
    /\ data = NoData
    /\ result = NoResponse
    /\ kvBatch = [s \in SubmissionKeys |-> NoBatch]
    /\ kvExtracted = [s \in SubmissionKeys |-> NoExtracted]
    /\ audit = {}
    /\ fileData = "none"
    /\ uploadData = NoUpload

Init ==
    /\ credentials \in BOOLEAN
    /\ KlearIdle
    /\ responseText = <<>>
    /\ document = <<>>
    /\ parsed = NotParsed
    /\ gstApiKey = TRUE
    /\ GstIdle
    /\ QrIdle
    /\ KafkaIdle
    /\ DisputeIdle
    /\ AuthIdle

\* a handler starts on a fresh request: nothing of the previous request's
\* locals is in scope
Accept(route, sub, batch, maxDur) ==
    /\ pc \in {"idle", "done"}
    /\ handler' = route
    /\ submissionId' = sub
    /\ batchId' = batch
    /\ maxDuration' = maxDur
    /\ attempts' = 0
    /\ sleeps' = 0
    /\ initialAccessToken' = NoTok
    /\ initialRefreshToken' = NoTok
    /\ newAccessToken' = NoTok
    /\ calls' = <<>>
    /\ called' = {}
    /\ data' = NoData
    /\ audit' = {}
    /\ fileData' = "none"
    /\ uploadData' = NoUpload
    /\ UNCHANGED <<restVars, credentials, kvVars>>

\* return c.json(...)
Return(resp) ==
    /\ pc' = "done"
    /\ result' = resp

\* an outbound call and the Authorization header it carries
Call(ep, auth) ==
    /\ calls' = Append(calls, [ep |-> ep, auth |-> auth])
    /\ called' = called \cup {ep}

\* storeApiResponse / storeTokens: the insert succeeds or reports an error;
\* neither throws
StoreOutcomes == {"ok", "insert_error"}

\* an insert that never reports an error
StoredAlways(rows, step, outcome) == rows \cup {step}

Stored(rows, step, outcome) == IF outcome = "ok" THEN rows \cup {step} ELSE rows

\* customKV.set: throws when the upsert reports an error
KvSet(rows, key, value) == [rows EXCEPT ![key] = value]

\* !submissionId || !batchId
MissingParams(sub, batch) == sub = "" \/ batch = ""

\* the status of the handler's own response when it passes on the provider's
PassedStatus(resp) == resp.code

\* !initialAccessToken || !initialRefreshToken
Step1TokensMissing(at, rt) == at = NoTok \/ rt = NoTok

\* !newAccessToken
Step2TokenMissing(at) == at = NoTok

(***************************************************************************)
(* poll-completion (pollUntilComplete), klearstack.tsx 677-885             *)
(***************************************************************************)
\* a loop that still starts an attempt when the budget is just used up
LoopGuardInclusive(t, start, maxDur) ==
    t - start <= IF maxDur.ty = "undefined" THEN DefaultMaxDuration ELSE maxDur.n

\* while (Date.now() - startTime < maxDuration)
LoopGuard(t, start, maxDur) == t - start < MaxDurationOf(maxDur)

\* const maxAttempts = Math.floor(maxDuration / pollInterval): logged only
MaxAttemptsOf(maxDur) == MaxDurationOf(maxDur) \div PollInterval

\* setTimeout(resolve, pollInterval): the timer fires after pollInterval,
\* or later
SleepTime(j) == PollInterval + j

\* await c.req.json() throws on a body that is not JSON: outer catch
BadBody(route) ==
    /\ Accept(route, "", "", Undef)
    /\ Return(ErrorResponse(500))
    /\ UNCHANGED clockVars

PollCompletionAccept(subs, batches, durations, clocks) ==
    \/ BadBody("poll-completion")
    \/ \E sub \in subs, batch \in batches, maxDur \in durations, t \in clocks :
        /\ Accept("poll-completion", sub, batch, maxDur)
        /\ now' = t
        /\ startTime' = t
        /\ IF MissingParams(sub, batch)
           THEN Return(ErrorResponse(400))
           ELSE pc' = "c_loop" /\ result' = NoResponse

\* the response after the loop
TimeoutResponse(att, elapsed) ==
    Response(200, "false", "timeout", "absent", "", att, elapsed)

PollLoop ==
    /\ pc = "c_loop"
    /\ UNCHANGED <<restVars, uploadVars>>
    /\ UNCHANGED <<paramVars, clockVars, kvVars, sleeps, called, audit>>
    /\ IF LoopGuard(now, startTime, maxDuration)
       THEN /\ attempts' = attempts + 1
            /\ pc' = "c_token"
            /\ initialAccessToken' = NoTok
            /\ initialRefreshToken' = NoTok
            /\ newAccessToken' = NoTok
            /\ calls' = <<>>
            /\ data' = NoData
            /\ result' = NoResponse
       ELSE /\ Return(TimeoutResponse(attempts, now - startTime))
            /\ UNCHANGED <<attempts, tokenVars, calls, data>>

\* a loop whose wait after an attempt is never resumed
AfterAttemptHang == "c_hang"

\* a loop that gives up at the first attempt that does not end the request
AfterAttemptGiveUp == "done"

\* where an attempt that did not end the request goes: the catch block, the
\* three `continue` paths and the still-processing branch all wait first
AfterAttempt == "c_sleep"

\* the loop tests only tokenResponse.ok: the fields are taken as they come
PollToken(bodies, delays) ==
    \E resp \in Fetches, d \in delays :
    \E body \in IF resp.parsed THEN bodies ELSE {FullTokenBody} :
        /\ pc = "c_token"
        /\ Call("token", NoTok)
        /\ now' = now + d
        /\ UNCHANGED <<restVars, uploadVars>>
        /\ UNCHANGED <<paramVars, startTime, kvVars, attempts, sleeps,
                       newAccessToken, data, result, audit>>
        /\ IF resp.net = "throw" \/ ~Ok(resp) \/ ~resp.parsed
           THEN /\ pc' = AfterAttempt
                /\ UNCHANGED <<initialAccessToken, initialRefreshToken>>
           ELSE /\ initialAccessToken' =
                       FieldTok(body.access_token, "issue_access", attempts)
                /\ initialRefreshToken' =
                       FieldTok(body.refresh_token, "issue_refresh", attempts)
                /\ pc' = "c_refresh"

PollRefresh(bodies, delays) ==
    \E resp \in Fetches, d \in delays :
    \E body \in IF resp.parsed THEN bodies ELSE {FullTokenBody} :
        /\ pc = "c_refresh"
        /\ Call("refresh", initialAccessToken)
        /\ now' = now + d
        /\ UNCHANGED <<restVars, uploadVars>>
        /\ UNCHANGED <<paramVars, startTime, kvVars, attempts, sleeps,
                       initialAccessToken, initialRefreshToken, data, result,
                       audit>>
        /\ IF resp.net = "throw" \/ ~Ok(resp) \/ ~resp.parsed
           THEN /\ pc' = AfterAttempt
                /\ UNCHANGED newAccessToken
           ELSE /\ newAccessToken' =
                       FieldTok(body.access_token, "refresh_access", attempts)
                /\ pc' = "c_status"

\* the KV row written when the response carries results
ExtractedRecord(batch) == [batch_id |-> batch, document_data |-> "results[0]"]

CompleteResponse(body, att) ==
    Response(200, "true", "complete", ExtractedDataOf(body), "", att, -1)

FailedResponse(att) ==
    Response(200, "false", "failed", "absent", "", att, -1)

\* a loop that goes on waiting on a failed extraction
PollBranchFailedWaits(cls, body, kvOk) ==
    IF cls = "complete"
    THEN IF HasResults(body) /\ ~kvOk THEN "catch" ELSE "complete"
    ELSE IF cls = "throw" THEN "catch"
    ELSE "wait"

\* a loop that goes on waiting on a completed extraction without results
PollBranchNeedsResults(cls, body, kvOk) ==
    IF cls = "complete"
    THEN IF ~HasResults(body) THEN "wait"
         ELSE IF ~kvOk THEN "catch" ELSE "complete"
    ELSE IF cls = "failed" THEN "failed"
    ELSE IF cls = "throw" THEN "catch"
    ELSE "wait"

\* the if / else-if / else on the classified response, in the loop: "done"
\* with a response, or on to the wait
PollBranch(cls, body, kvOk) ==
    IF cls = "complete"
    THEN IF HasResults(body) /\ ~kvOk THEN "catch" ELSE "complete"
    ELSE IF cls = "failed" THEN "failed"
    ELSE IF cls = "throw" THEN "catch"
    ELSE "wait"

PollStatusCall(bodies, delays) ==
    \E resp \in Fetches, d \in delays :
    \E body \in IF resp.parsed THEN bodies ELSE {NoData} :
    \E stored \in IF resp.net = "http" /\ (resp.parsed \/ ~Ok(resp))
                  THEN StoreOutcomes ELSE {"ok"},
       kvOk \in IF resp.parsed /\ ClassifyStatus(body) = "complete"
                   /\ HasResults(body)
                THEN BOOLEAN ELSE {TRUE} :
        /\ pc = "c_status"
        /\ Call("status", newAccessToken)
        /\ now' = now + d
        /\ UNCHANGED <<restVars, uploadVars>>
        /\ UNCHANGED <<paramVars, startTime, attempts, sleeps, tokenVars,
                       kvBatch>>
        /\ IF resp.net = "throw"
           THEN /\ pc' = AfterAttempt
                /\ UNCHANGED <<data, result, kvExtracted, audit>>
           ELSE IF ~Ok(resp)
           THEN /\ audit' = Stored(audit, "step4_batch", stored)
                /\ pc' = AfterAttempt
                /\ UNCHANGED <<data, result, kvExtracted>>
           ELSE IF ~resp.parsed
           THEN /\ pc' = AfterAttempt
                /\ UNCHANGED <<data, result, kvExtracted, audit>>
           ELSE LET br == PollBranch(ClassifyStatus(body), body, kvOk) IN
                /\ data' = body
                /\ audit' = Stored(audit, "step4_batch", stored)
                /\ kvExtracted' =
                       IF br = "complete" /\ HasResults(body)
                       THEN KvSet(kvExtracted, submissionId,
                                  ExtractedRecord(batchId))
                       ELSE kvExtracted
                /\ IF br = "complete"
                   THEN Return(CompleteResponse(body, attempts))
                   ELSE IF br = "failed"
                   THEN Return(FailedResponse(attempts))
                   ELSE pc' = AfterAttempt /\ UNCHANGED result

PollSleep(overruns) ==
    \E j \in overruns :
        /\ pc = "c_sleep"
        /\ now' = now + SleepTime(j)
        /\ sleeps' = sleeps + 1
        /\ pc' = "c_loop"
        /\ UNCHANGED <<restVars, uploadVars>>
        /\ UNCHANGED <<paramVars, startTime, kvVars, attempts, tokenVars,
                       calls, called, data, result, audit>>

\* the polling loop under budgets the caller supplies
NextPoll ==
    \/ PollCompletionAccept({"s1", ""}, {"b1", ""}, SuppliedDurations, {Jitter})
    \/ PollLoop
    \/ PollToken(TokenBodies, Instant)
    \/ PollRefresh(TokenBodies, Instant)
    \/ PollStatusCall(LoopStatusBodies, Delays)
    \/ PollSleep(Delays)

InitPoll == Init /\ credentials = TRUE

SpecPoll == InitPoll /\ [][NextPoll]_vars

\* the polling loop under the budgets a caller supplies, with calls that
\* fail or answer at any step
NextPollFair ==
    \/ PollCompletionAccept({"s1", ""}, {"b1"}, SuppliedDurations, {Jitter})
    \/ PollLoop
    \/ PollToken(TokenBodies, Instant)
    \/ PollRefresh(TokenBodies, Instant)
    \/ PollStatusCall(FewStatusBodies, Delays)
    \/ PollSleep(Delays)

\* the loop when every call it awaits settles and every timer it sets
\* fires: no step of a request in flight is put off for ever
SpecPollFair ==
    /\ InitPoll
    /\ [][NextPollFair]_vars
    /\ WF_vars(PollLoop)
    /\ WF_vars(PollToken(TokenBodies, Instant))
    /\ WF_vars(PollRefresh(TokenBodies, Instant))
    /\ WF_vars(PollStatusCall(FewStatusBodies, Delays))
    /\ WF_vars(PollSleep(Delays))

\* the polling loop under the default budget too
NextBudget ==
    \/ PollCompletionAccept({"s1"}, {"b1"}, SuppliedDurations \cup {Undef},
                            {Jitter})
    \/ PollLoop
    \/ PollToken({FullTokenBody}, Instant)
    \/ PollRefresh({FullTokenBody}, Instant)
    \/ PollStatusCall(FewStatusBodies, Instant)
    \/ PollSleep({0, Stall})

SpecBudget == InitPoll /\ [][NextBudget]_vars

(***************************************************************************)
(* upload-invoice (submitDocument), klearstack.tsx 229-473                 *)
(***************************************************************************)
UploadAccept(subs) ==
    \/ BadBody("upload-invoice")
    \/ \E sub \in subs :
        /\ Accept("upload-invoice", sub, "", Undef)
        /\ pc' = "u_token"
        /\ result' = NoResponse
        /\ UNCHANGED clockVars

\* Step 1: issue a token pair with the account credentials
UploadToken ==
    \E resp \in Fetches :
    \E body \in IF resp.parsed THEN TokenBodies ELSE {FullTokenBody},
       stored \in IF resp.net = "http" /\ (resp.parsed \/ ~Ok(resp))
                  THEN StoreOutcomes ELSE {"ok"},
       kept \in IF resp.parsed THEN StoreOutcomes ELSE {"ok"} :
        LET at == FieldTok(body.access_token, "issue_access", 0)
            rt == FieldTok(body.refresh_token, "issue_refresh", 0)
        IN
        /\ pc = "u_token"
        /\ Call("token", NoTok)
        /\ UNCHANGED <<restVars, uploadVars>>
        /\ UNCHANGED <<paramVars, loopVars, kvVars, newAccessToken, data>>
        /\ IF resp.net = "throw" \/ (Ok(resp) /\ ~resp.parsed)
           THEN /\ Return(ErrorResponse(500))
                /\ UNCHANGED <<initialAccessToken, initialRefreshToken, audit>>
           ELSE IF ~Ok(resp)
           THEN /\ audit' = Stored(audit, "step1_token", stored)
                /\ Return(ErrorResponse(PassedStatus(resp)))
                /\ UNCHANGED <<initialAccessToken, initialRefreshToken>>
           ELSE /\ initialAccessToken' = at
                /\ initialRefreshToken' = rt
                /\ IF Step1TokensMissing(at, rt)
                   THEN Return(ErrorResponse(500)) /\ UNCHANGED audit
                   ELSE /\ audit' = Stored(Stored(audit, "step1_token", stored),
                                           "tokens_initial", kept)
                        /\ pc' = "u_refresh"
                        /\ UNCHANGED result

\* Step 2: refresh, authorised by the token of step 1; then the download
\* from storage is the next call
UploadRefresh ==
    \E resp \in Fetches :
    \E body \in IF resp.parsed THEN TokenBodies ELSE {FullTokenBody},
       stored \in IF resp.net = "http" /\ (resp.parsed \/ ~Ok(resp))
                  THEN StoreOutcomes ELSE {"ok"},
       kept \in IF resp.parsed THEN StoreOutcomes ELSE {"ok"} :
        LET at == FieldTok(body.access_token, "refresh_access", 0) IN
        /\ pc = "u_refresh"
        /\ Call("refresh", initialAccessToken)
        /\ UNCHANGED <<restVars, uploadVars>>
        /\ UNCHANGED <<paramVars, loopVars, kvVars, initialAccessToken,
                       initialRefreshToken, data>>
        /\ IF resp.net = "throw" \/ (Ok(resp) /\ ~resp.parsed)
           THEN /\ Return(ErrorResponse(500))
                /\ UNCHANGED <<newAccessToken, audit>>
           ELSE IF ~Ok(resp)
           THEN /\ audit' = Stored(audit, "step2_refresh", stored)
                /\ Return(ErrorResponse(PassedStatus(resp)))
                /\ UNCHANGED newAccessToken
           ELSE /\ newAccessToken' = at
                /\ IF Step2TokenMissing(at)
                   THEN Return(ErrorResponse(500)) /\ UNCHANGED audit
                   ELSE /\ audit' = Stored(Stored(audit, "step2_refresh", stored),
                                           "tokens_refreshed", kept)
                        /\ pc' = "u_download"
                        /\ UNCHANGED result

\* supabase.storage.download: data, an error, neither, or a thrown error
DownloadOutcomes == {"data", "error", "nodata", "throw"}

\* a test of downloadError alone
DownloadFailedOnError(outcome) == outcome \in {"error", "throw"}

\* downloadError || !fileData
DownloadFailed(outcome) == outcome # "data"

UploadDownload ==
    \E outcome \in DownloadOutcomes :
        /\ pc = "u_download"
        /\ Call("download", NoTok)
        /\ fileData' = outcome
        /\ UNCHANGED <<restVars, uploadData>>
        /\ UNCHANGED <<paramVars, loopVars, kvVars, tokenVars, data, audit>>
        /\ IF DownloadFailed(outcome)
           THEN Return(ErrorResponse(500))
           ELSE pc' = "u_upload" /\ UNCHANGED result

\* a batch id that falls back to a placeholder
BatchIdOrPending(body) ==
    IF body.OCR_ref_no # "" THEN body.OCR_ref_no
    ELSE IF body.OCR_ext_no # "" THEN body.OCR_ext_no
    ELSE IF body.batch_id # "" THEN body.batch_id
    ELSE "pending"

\* uploadData.OCR_ref_no || uploadData.OCR_ext_no || uploadData.batch_id
BatchIdOf(body) ==
    IF body.OCR_ref_no # "" THEN body.OCR_ref_no
    ELSE IF body.OCR_ext_no # "" THEN body.OCR_ext_no
    ELSE body.batch_id

\* the KV row klearstack_batch:<submissionId>
BatchRecord(batch) == [batch_id |-> batch, file_name |-> "fileName"]

\* the success response of upload-invoice
UploadedResponse(batch) ==
    Response(200, "true", "processing", "absent", batch, -1, -1)

\* an upload that goes on to ask for the batch status itself
AfterUploadPolls == "s_status"

\* what upload-invoice does once the batch id is stored
AfterUpload == "done"

\* Step 3: post the document with the refreshed token
UploadProcess ==
    \E resp \in Fetches :
    \E body \in IF resp.parsed THEN UploadBodies
                ELSE {[OCR_ref_no |-> "", OCR_ext_no |-> "", batch_id |-> ""]},
       stored \in IF resp.net = "http" /\ (resp.parsed \/ ~Ok(resp))
                  THEN StoreOutcomes ELSE {"ok"},
       kvOk \in IF resp.parsed THEN BOOLEAN ELSE {TRUE} :
        /\ pc = "u_upload"
        /\ Call("upload", newAccessToken)
        /\ uploadData' = IF resp.parsed THEN body ELSE uploadData
        /\ UNCHANGED <<restVars, fileData>>
        /\ UNCHANGED <<paramVars, loopVars, tokenVars, data, kvExtracted>>
        /\ IF resp.net = "throw" \/ (Ok(resp) /\ ~resp.parsed)
           THEN /\ Return(ErrorResponse(500))
                /\ UNCHANGED <<audit, kvBatch>>
           ELSE IF ~Ok(resp)
           THEN /\ audit' = Stored(audit, "step3_upload", stored)
                /\ Return(ErrorResponse(PassedStatus(resp)))
                /\ UNCHANGED kvBatch
           ELSE IF BatchIdOf(body) = ""
           THEN /\ Return(ErrorResponse(500))
                /\ UNCHANGED <<audit, kvBatch>>
           ELSE /\ audit' = Stored(audit, "step3_upload", stored)
                /\ IF ~kvOk
                   THEN Return(ErrorResponse(500)) /\ UNCHANGED kvBatch
                   ELSE /\ kvBatch' = KvSet(kvBatch, submissionId,
                                            BatchRecord(BatchIdOf(body)))
                        /\ pc' = AfterUpload
                        /\ result' = UploadedResponse(BatchIdOf(body))

(***************************************************************************)
(* poll-status (checkStatusOnce), klearstack.tsx 478-672                   *)
(***************************************************************************)
PollStatusAccept(subs, batches) ==
    \/ BadBody("poll-status")
    \/ \E sub \in subs, batch \in batches :
        /\ Accept("poll-status", sub, batch, Undef)
        /\ UNCHANGED clockVars
        /\ IF MissingParams(sub, batch)
           THEN Return(ErrorResponse(400))
           ELSE pc' = "s_token" /\ result' = NoResponse

StatusToken ==
    \E resp \in Fetches :
    \E body \in IF resp.parsed THEN TokenBodies ELSE {FullTokenBody} :
        LET at == FieldTok(body.access_token, "issue_access", 0)
            rt == FieldTok(body.refresh_token, "issue_refresh", 0)
        IN
        /\ pc = "s_token"
        /\ Call("token", NoTok)
        /\ UNCHANGED <<restVars, uploadVars>>
        /\ UNCHANGED <<paramVars, loopVars, kvVars, newAccessToken, data,
                       audit>>
        /\ IF resp.net = "throw" \/ (Ok(resp) /\ ~resp.parsed)
           THEN /\ Return(ErrorResponse(500))
                /\ UNCHANGED <<initialAccessToken, initialRefreshToken>>
           ELSE IF ~Ok(resp)
           THEN /\ Return(ErrorResponse(PassedStatus(resp)))
                /\ UNCHANGED <<initialAccessToken, initialRefreshToken>>
           ELSE /\ initialAccessToken' = at
                /\ initialRefreshToken' = rt
                /\ IF Step1TokensMissing(at, rt)
                   THEN Return(ErrorResponse(500))
                   ELSE pc' = "s_refresh" /\ UNCHANGED result

\* the refresh, and the check of the configured credentials that follows it
StatusRefresh ==
    \E resp \in Fetches :
    \E body \in IF resp.parsed THEN TokenBodies ELSE {FullTokenBody} :
        LET at == FieldTok(body.access_token, "refresh_access", 0) IN
        /\ pc = "s_refresh"
        /\ Call("refresh", initialAccessToken)
        /\ UNCHANGED <<restVars, uploadVars>>
        /\ UNCHANGED <<paramVars, loopVars, kvVars, initialAccessToken,
                       initialRefreshToken, data, audit>>
        /\ IF resp.net = "throw" \/ (Ok(resp) /\ ~resp.parsed)
           THEN /\ Return(ErrorResponse(500))
                /\ UNCHANGED newAccessToken
           ELSE IF ~Ok(resp)
           THEN /\ Return(ErrorResponse(PassedStatus(resp)))
                /\ UNCHANGED newAccessToken
           ELSE /\ newAccessToken' = at
                /\ IF Step2TokenMissing(at) \/ ~credentials
                   THEN Return(ErrorResponse(500))
                   ELSE pc' = "s_status" /\ UNCHANGED result

ProcessingResponse ==
    Response(200, "true", "processing", "absent", "", -1, -1)

\* the response of poll-status for a classified body; a thrown TypeError
\* ends in the handler's catch
StatusResponse(cls, body) ==
    IF cls = "complete"
    THEN Response(200, "true", "complete", ExtractedDataOf(body), "", -1, -1)
    ELSE IF cls = "failed"
    THEN Response(200, "false", "failed", "absent", "", -1, -1)
    ELSE IF cls = "throw" THEN ErrorResponse(500)
    ELSE ProcessingResponse

StatusCall(bodies) ==
    \E resp \in Fetches :
    \E body \in IF resp.parsed THEN bodies ELSE {NoData} :
    \E stored \in IF resp.net = "http" /\ (resp.parsed \/ ~Ok(resp))
                  THEN StoreOutcomes ELSE {"ok"},
       kvOk \in IF resp.parsed /\ HasResults(body) THEN BOOLEAN ELSE {TRUE} :
        /\ pc = "s_status"
        /\ Call("status", newAccessToken)
        /\ UNCHANGED <<restVars, uploadVars>>
        /\ UNCHANGED <<paramVars, loopVars, tokenVars, kvBatch>>
        /\ IF resp.net = "throw" \/ (Ok(resp) /\ ~resp.parsed)
           THEN /\ Return(ErrorResponse(500))
                /\ UNCHANGED <<data, kvExtracted, audit>>
           ELSE IF ~Ok(resp)
           THEN /\ audit' = Stored(audit, "step4_batch", stored)
                /\ Return(ErrorResponse(PassedStatus(resp)))
                /\ UNCHANGED <<data, kvExtracted>>
           ELSE /\ data' = body
                /\ audit' = Stored(audit, "step4_batch", stored)
                /\ IF HasResults(body) /\ ~kvOk
                   THEN Return(ErrorResponse(500)) /\ UNCHANGED kvExtracted
                   ELSE /\ kvExtracted' =
                              IF HasResults(body)
                              THEN KvSet(kvExtracted, submissionId,
                                         ExtractedRecord(batchId))
                              ELSE kvExtracted
                        /\ Return(StatusResponse(ClassifyStatus(body), body))

\* submitDocument and checkStatusOnce, one request after the other
Next ==
    \/ UploadAccept({"s1", ""})
    \/ UploadToken
    \/ UploadRefresh
    \/ UploadDownload
    \/ UploadProcess
    \/ PollStatusAccept({"s1", ""}, {"b1", ""})
    \/ StatusToken
    \/ StatusRefresh
    \/ StatusCall(StatusBodies)

Spec == Init /\ [][Next]_vars

\* the three routes for one submission and one batch, with every outcome of
\* the inserts into klear_responses and klear_tokens
NextAudit ==
    \/ UploadAccept({"s1"})
    \/ UploadToken
    \/ UploadRefresh
    \/ UploadDownload
    \/ UploadProcess
    \/ PollStatusAccept({"s1"}, {"b1"})
    \/ StatusToken
    \/ StatusRefresh
    \/ StatusCall(FewStatusBodies)
    \/ PollCompletionAccept({"s1"}, {"b1"}, {Num(PollInterval)}, {Jitter})
    \/ PollLoop
    \/ PollToken({FullTokenBody}, Instant)
    \/ PollRefresh({FullTokenBody}, Instant)
    \/ PollStatusCall(FewStatusBodies, Instant)
    \/ PollSleep(Instant)

SpecAudit == InitPoll /\ [][NextAudit]_vars

(***************************************************************************)
(* safeParseJSON, klearstack.tsx 56-110.  A text is a sequence of           *)
(* characters; "x" stands for any character that is neither a delimiter,   *)
(* a quote, a backslash, white space nor part of a JSON token.             *)
(***************************************************************************)
\* longest noise before and after the JSON document of a response body
MaxNoiseLen == 2

NoiseChars == {"x", " ", "{", "}", "[", "]", "\"", "\\"}

Texts(chars, n) == UNION {[1..k -> chars] : k \in 0..n}

RECURSIVE SkipWs(_, _)
\* the first position from i on that holds no white space
SkipWs(t, i) == IF i <= Len(t) /\ t[i] = " " THEN SkipWs(t, i + 1) ELSE i

RECURSIVE StringEnd(_, _)
\* JSON string whose opening quote is before j: the position after its
\* closing quote, 0 when the string is not well formed
StringEnd(t, j) ==
    IF j > Len(t) THEN 0
    ELSE IF t[j] = "\"" THEN j + 1
    ELSE IF t[j] = "\\"
    THEN IF j + 1 <= Len(t) /\ t[j + 1] \in {"\"", "\\"}
         THEN StringEnd(t, j + 2) ELSE 0
    ELSE StringEnd(t, j + 1)

RECURSIVE ValueEnd(_, _), MembersEnd(_, _), ElementsEnd(_, _)
\* JSON value at i (white space skipped): the position after it, 0 when
\* there is no value there
ValueEnd(t, i) ==
    LET j == SkipWs(t, i) IN
    IF j > Len(t) THEN 0
    ELSE IF t[j] = "\"" THEN StringEnd(t, j + 1)
    ELSE IF t[j] = "1" THEN j + 1
    ELSE IF t[j] = "{"
    THEN LET k == SkipWs(t, j + 1) IN
         IF k <= Len(t) /\ t[k] = "}" THEN k + 1 ELSE MembersEnd(t, k)
    ELSE IF t[j] = "["
    THEN LET k == SkipWs(t, j + 1) IN
         IF k <= Len(t) /\ t[k] = "]" THEN k + 1 ELSE ElementsEnd(t, k)
    ELSE 0

\* members of an object from i on, up to and including the closing brace
MembersEnd(t, i) ==
    LET j == SkipWs(t, i)
        k == IF j <= Len(t) /\ t[j] = "\"" THEN StringEnd(t, j + 1) ELSE 0
        c == IF k = 0 THEN 0 ELSE SkipWs(t, k)
        v == IF c # 0 /\ c <= Len(t) /\ t[c] = ":" THEN ValueEnd(t, c + 1) ELSE 0
        e == IF v = 0 THEN 0 ELSE SkipWs(t, v)
    IN  IF e = 0 \/ e > Len(t) THEN 0
        ELSE IF t[e] = "}" THEN e + 1
        ELSE IF t[e] = "," THEN MembersEnd(t, e + 1)
        ELSE 0

\* elements of an array from i on, up to and including the closing bracket
ElementsEnd(t, i) ==
    LET v == ValueEnd(t, i)
        e == IF v = 0 THEN 0 ELSE SkipWs(t, v)
    IN  IF e = 0 \/ e > Len(t) THEN 0
        ELSE IF t[e] = "]" THEN e + 1
        ELSE IF t[e] = "," THEN ElementsEnd(t, e + 1)
        ELSE 0

\* the text is one JSON value, white space around it allowed
IsJsonText(t) ==
    LET e == ValueEnd(t, 1) IN e # 0 /\ SkipWs(t, e) > Len(t)

RECURSIVE Canonical(_, _, _)
\* the value a JSON text denotes, as its text without insignificant white
\* space
Canonical(t, i, inStr) ==
    IF i > Len(t) THEN <<>>
    ELSE IF inStr /\ t[i] = "\\" /\ i < Len(t)
    THEN <<t[i], t[i + 1]>> \o Canonical(t, i + 2, inStr)
    ELSE IF t[i] = "\"" THEN <<t[i]>> \o Canonical(t, i + 1, ~inStr)
    ELSE IF t[i] = " " /\ ~inStr THEN Canonical(t, i + 1, inStr)
    ELSE <<t[i]>> \o Canonical(t, i + 1, inStr)

Returned(value) == [ok |-> TRUE, value |-> value, error |-> "none"]

Thrown(error) == [ok |-> FALSE, value |-> <<>>, error |-> error]

\* JSON.parse(text)
JSONParse(t) ==
    IF IsJsonText(t) THEN Returned(Canonical(t, 1, FALSE))
    ELSE Thrown("SyntaxError")

RECURSIVE TrimStart(_)
TrimStart(t) ==
    IF t # <<>> /\ Head(t) = " " THEN TrimStart(Tail(t)) ELSE t

RECURSIVE TrimEnd(_)
TrimEnd(t) ==
    IF t # <<>> /\ t[Len(t)] = " " THEN TrimEnd(SubSeq(t, 1, Len(t) - 1))
    ELSE t

\* responseText.trim()
Trim(t) == TrimEnd(TrimStart(t))

\* indexOf, counted from 1: 0 when the character does not occur
IndexOf(t, ch) ==
    IF \E i \in 1..Len(t) : t[i] = ch
    THEN CHOOSE i \in 1..Len(t) : t[i] = ch /\ \A j \in 1..(i - 1) : t[j] # ch
    ELSE 0

\* braceIndex !== -1 && (bracketIndex === -1 || braceIndex < bracketIndex)
\*     ? braceIndex : bracketIndex
JsonStart(braceIndex, bracketIndex) ==
    IF braceIndex # 0 /\ (bracketIndex = 0 \/ braceIndex < bracketIndex)
    THEN braceIndex ELSE bracketIndex

RECURSIVE RegionEnd(_, _, _, _, _)
\* the for loop: the position of the delimiter that brings depth back to 0,
\* the length of the text when none does
RegionEnd(t, i, depth, inString, escapeNext) ==
    LET startChar == t[1]
        endChar == IF startChar = "{" THEN "}" ELSE "]"
    IN
    IF i > Len(t) THEN Len(t)
    ELSE IF escapeNext THEN RegionEnd(t, i + 1, depth, inString, FALSE)
    ELSE IF t[i] = "\\" THEN RegionEnd(t, i + 1, depth, inString, TRUE)
    ELSE IF t[i] = "\"" THEN RegionEnd(t, i + 1, depth, ~inString, FALSE)
    ELSE IF ~inString /\ t[i] = startChar
    THEN RegionEnd(t, i + 1, depth + 1, inString, FALSE)
    ELSE IF ~inString /\ t[i] = endChar
    THEN IF depth - 1 = 0 THEN i
         ELSE RegionEnd(t, i + 1, depth - 1, inString, FALSE)
    ELSE RegionEnd(t, i + 1, depth, inString, FALSE)

safeParseJSON(text) ==
    LET cleanText == Trim(text)
        braceIndex == IndexOf(cleanText, "{")
        bracketIndex == IndexOf(cleanText, "[")
        cut == SubSeq(cleanText, JsonStart(braceIndex, bracketIndex),
                      Len(cleanText))
    IN  IF braceIndex = 0 /\ bracketIndex = 0 THEN Thrown("No JSON found")
        ELSE JSONParse(SubSeq(cut, 1, RegionEnd(cut, 1, 0, FALSE, FALSE)))

\* JSON documents a provider sends: objects and arrays, nested, with
\* delimiters, escaped quotes and escaped backslashes inside strings
JsonDocuments ==
    { <<"{", "}">>, <<"[", "]">>,
      <<"{", "\"", "x", "\"", ":", "1", "}">>,
      <<"[", "{", "}", ",", " ", "[", "]", "]">>,
      <<"{", "\"", "x", "\"", ":", "[", "1", "]", "}">>,
      <<"{", "\"", "x", "\"", ":", "\"", "}", "\"", "}">>,
      <<"[", "\"", "\\", "\"", "]", "\"", "]">>,
      <<"{", "\"", "x", "\"", ":", "\"", "\\", "\\", "\"", "}">> }

\* a text without a JSON object or array anywhere in it
IsNoise(t) ==
    \A i \in 1..Len(t) : \A j \in i..Len(t) :
        t[i] \in {"{", "["} => ~IsJsonText(SubSeq(t, i, j))

\* a response body: noise, a JSON document, noise
InitParse ==
    /\ credentials = TRUE
    /\ KlearIdle
    /\ parsed = NotParsed
    /\ document \in JsonDocuments
    /\ \E lead \in Texts(NoiseChars, MaxNoiseLen),
          trail \in Texts(NoiseChars, MaxNoiseLen - 1) :
          /\ IsNoise(lead)
          /\ IsNoise(trail)
          /\ responseText = lead \o document \o trail
    /\ gstApiKey = TRUE
    /\ GstIdle
    /\ QrIdle
    /\ KafkaIdle
    /\ DisputeIdle
    /\ AuthIdle

\* const data = safeParseJSON(responseText)
SafeParse ==
    /\ parsed = NotParsed
    /\ parsed' = safeParseJSON(responseText)
    /\ UNCHANGED <<responseText, document>>
    /\ UNCHANGED nonParseVars

SpecParse == InitParse /\ [][SafeParse]_vars

(***************************************************************************)
(* validateGST (validateVendorGst), unnamed/part_001 1680-1990: one request *)
(* at a time, one action per query or call.                                *)
(***************************************************************************)
Active == Str(<<"A", "c", "t", "i", "v", "e">>)

Yes == Str(<<"Y", "e", "s">>)

\* c.req.param("vendorName")
VendorNames ==
    { Undef, Str(<<>>), Str(<<" ">>), Str(<<" ", " ">>),
      Str(<<"n", "u", "l", "l">>), Str(<<"N", "u", "l", "l">>),
      Str(<<"u", "n", "d", "e", "f", "i", "n", "e", "d">>),
      Str(<<" ", "a", "c", "m", "e">>), Str(<<"a", "c", "m", "e">>) }

\* a guard that knows the empty name only
NoVendorNameEmptyOnly(v) == ~Truthy(v)

\* !vendorName || vendorName === "null" || vendorName === "undefined"
\*     || vendorName.trim() === ""
NoVendorName(v) ==
    \/ ~Truthy(v)
    \/ v = Str(<<"n", "u", "l", "l">>)
    \/ v = Str(<<"u", "n", "d", "e", "f", "i", "n", "e", "d">>)
    \/ Trim(v.s) = <<>>

\* what the vendor_master query gives: an error, no data, or the rows found
\* (at most one, by limit(1)) with the gst_number of the row
VendorLookups ==
    { [error |-> TRUE, rows |-> "null", gst_number |-> Undef],
      [error |-> FALSE, rows |-> "null", gst_number |-> Undef],
      [error |-> FALSE, rows |-> "empty", gst_number |-> Undef],
      [error |-> FALSE, rows |-> "one", gst_number |-> Undef],
      [error |-> FALSE, rows |-> "one", gst_number |-> Str(<<>>)],
      [error |-> FALSE, rows |-> "one", gst_number |-> Str(<<"2", "9", "A">>)] }

\* a lookup that counts only a reported error as a missing vendor
VendorMissingOnError(found) == found.error

\* vendorError || !vendors || vendors.length === 0
VendorMissing(found) == found.error \/ found.rows # "one"

GstBodies ==
    { GstBody("null", Undef, Undef, Undef, Undef),
      GstBody("primitive", Undef, Undef, Undef, Undef) }
    \cup
    { GstBody("object", code, status, einvoice, error) :
        code \in {Undef, Num(0), Num(1), Str(<<"1">>)},
        status \in {Undef, Active, Str(<<"a", "c", "t", "i", "v", "e">>),
                    Str(<<"C", "a", "n", "c", "e", "l", "l", "e", "d">>)},
        einvoice \in {Undef, Yes, Str(<<"N", "o">>), Str(<<"y", "e", "s">>)},
        error \in {Undef, Str(<<>>), Str(<<"e">>)} }

\* the vendor member of a skipped response: nulls before the lookup, the
\* searched name after a failed lookup, the row's name and id after it
Skipped(reason) ==
    GstReply(200, TRUE, TRUE, reason, "absent",
             IF reason = "api_key_missing" THEN "false" ELSE "absent",
             IF reason = "no_vendor_name" THEN "null"
             ELSE IF reason = "vendor_not_found" THEN "name_only"
             ELSE "name_and_id",
             IF reason = "api_key_missing" THEN "note" ELSE "absent")

\* the invalid responses have no vendor member
Invalid(reason) ==
    GstReply(400, FALSE, FALSE, reason, reason, "absent", "absent", "gstData")

Valid(isEInvoiceEnabled) ==
    GstReply(200, TRUE, FALSE, "absent", "absent",
             IF isEInvoiceEnabled THEN "true" ELSE "false",
             "name_and_id", "gstData")

\* the outer catch
ValidationError ==
    GstReply(500, FALSE, FALSE, "absent", "validation_error", "absent",
             "absent", "absent")

\* a status test that takes either sign of an active registration
IsValidEither(d) == d.status_code = Num(1) \/ d.status = Active

\* statusCode === 1 && status === "Active"
IsValid(d) == d.status_code = Num(1) /\ d.status = Active

\* a classification that tests the registration before the error member
GstOutcomeActiveFirst(d) ==
    IF d.kind = "null" THEN ValidationError
    ELSE IF ~IsValid(d) THEN Invalid("gst_inactive")
    ELSE Valid(d.einvoiceStatus = Yes)

\* Step 3 and step 4 on the parsed body; reading a member of null throws
GstOutcome(d) ==
    IF d.kind = "null" THEN ValidationError
    ELSE IF d.status_code = Num(0) /\ Truthy(d.error)
    THEN Invalid("invalid_gstin")
    ELSE IF ~IsValid(d) THEN Invalid("gst_inactive")
    ELSE Valid(d.einvoiceStatus = Yes)

InitGst ==
    /\ credentials = TRUE
    /\ KlearIdle
    /\ responseText = <<>>
    /\ document = <<>>
    /\ parsed = NotParsed
    /\ gstApiKey \in BOOLEAN
    /\ GstIdle
    /\ QrIdle
    /\ KafkaIdle
    /\ DisputeIdle
    /\ AuthIdle

GstReturn(reply) ==
    /\ gstPc' = "done"
    /\ gstResult' = reply

GstAccept ==
    \E name \in VendorNames :
        /\ gstPc \in {"idle", "done"}
        /\ vendorName' = name
        /\ vendor' = NoVendor
        /\ gstData' = NoGstData
        /\ gstFetch' = "none"
        /\ gstCalls' = <<>>
        /\ IF NoVendorName(name)
           THEN GstReturn(Skipped("no_vendor_name"))
           ELSE gstPc' = "g_lookup" /\ gstResult' = NoGstReply
        /\ UNCHANGED <<nonGstVars, gstApiKey>>

\* Step 1: the vendor_master query; then the checks of the tax id and of
\* the API key, up to the call of the GST API
GstLookup ==
    \E found \in VendorLookups :
        /\ gstPc = "g_lookup"
        /\ gstCalls' = Append(gstCalls, "vendor_master")
        /\ vendor' = found
        /\ IF VendorMissing(found)
           THEN gstPc' = "g_sample" /\ UNCHANGED gstResult
           ELSE IF ~Truthy(found.gst_number)
           THEN GstReturn(Skipped("missing_gstin"))
           ELSE IF ~gstApiKey
           THEN GstReturn(Skipped("api_key_missing"))
           ELSE gstPc' = "g_fetch" /\ UNCHANGED gstResult
        /\ UNCHANGED <<nonGstVars, gstApiKey, vendorName, gstData,
                       gstFetch>>

\* the query for sample vendor names after a failed lookup
GstSample ==
    /\ gstPc = "g_sample"
    /\ gstCalls' = Append(gstCalls, "vendor_master")
    /\ GstReturn(Skipped("vendor_not_found"))
    /\ UNCHANGED <<nonGstVars, gstApiKey, vendorName, vendor,
                   gstData, gstFetch>>

\* fetch throws, answers with a non-success status, or answers 2xx with a
\* body that JSON.parse rejects or accepts
GstFetches == {"throw", "status", "unparsable", "parsed"}

\* Step 2 and step 3: the call of the GST API and the classification
GstFetch ==
    \E got \in GstFetches :
    \E body \in IF got = "parsed" THEN GstBodies ELSE {NoGstData} :
        /\ gstPc = "g_fetch"
        /\ gstCalls' = Append(gstCalls, "gst_api")
        /\ gstFetch' = got
        /\ gstData' = body
        /\ GstReturn(IF got = "throw" THEN ValidationError
                     ELSE IF got = "status" THEN Skipped("gst_api_error")
                     ELSE IF got = "unparsable" THEN Skipped("network_error")
                     ELSE GstOutcome(body))
        /\ UNCHANGED <<nonGstVars, gstApiKey, vendorName, vendor>>

NextGst ==
    \/ GstAccept
    \/ GstLookup
    \/ GstSample
    \/ GstFetch

SpecGst == InitGst /\ [][NextGst]_vars

(***************************************************************************)
(* extractQRCode (extractQrFromDocument) and retryQRExtraction             *)
(* (retryExtraction), unnamed/part_001 1997-2243.  A call is recorded when *)
(* it is issued; time passes while the QR API call is in flight.           *)
(***************************************************************************)
\* how many steps of QrStep the body of a response may stall
MaxStallSteps == 2

\* the largest retry_count a caller sends
MaxRetryCount == 3

\* setTimeout(() => controller.abort(), 30000)
QrTimeoutMs == 30000

\* const maxRetries = 2
MaxRetries == 2

\* const backoffDelays = [500, 1000, 2000]
BackoffDelays == <<500, 1000, 2000>>

\* granularity of the time a call in flight takes
QrStep == QrTimeoutMs \div 3

\* createSignedUrl(filePath, 3600)
SignedUrlExpiry == 3600

\* "make-3c4ee602/"
BucketPrefix ==
    <<"m", "a", "k", "e", "-", "3", "c", "4", "e", "e", "6", "0", "2", "/">>

\* body.file_path: missing, empty, not a string, a storage key, and paths
\* that only look like one
FilePaths ==
    { Undef, Str(<<>>), Num(7),
      Str(BucketPrefix \o <<"f">>),
      Str(<<"h", "t", "t", "p">>),
      Str(<<"x">> \o BucketPrefix \o <<"f">>),
      Str(SubSeq(BucketPrefix, 1, Len(BucketPrefix) - 1) \o <<"f">>) }

\* a prefix test that finds the bucket name anywhere in the path
ContainsPrefix(t, prefix) ==
    \E i \in 1..Len(t) :
        /\ i + Len(prefix) - 1 <= Len(t)
        /\ SubSeq(t, i, i + Len(prefix) - 1) = prefix

\* file_path.startsWith(prefix)
StartsWith(t, prefix) ==
    Len(t) >= Len(prefix) /\ SubSeq(t, 1, Len(prefix)) = prefix

RetryCounts == {Undef} \cup {Num(k) : k \in (0 - 1)..MaxRetryCount}

\* const { retry_count = 0 } = body
RetryCountOf(v) == IF v.ty = "undefined" THEN 0 ELSE v.n

\* a delay taken one entry further down the table
BackoffDelayNext(k) ==
    IF k + 1 \in 0..(Len(BackoffDelays) - 1) THEN BackoffDelays[k + 2] ELSE 2000

\* backoffDelays[retry_count] || 2000
BackoffDelay(k) ==
    IF k \in 0..(Len(BackoffDelays) - 1) THEN BackoffDelays[k + 1] ELSE 2000

\* a retry limit that lets the count of the limit itself through
MaxRetriesReachedAbove(k) == k > MaxRetries

\* retry_count >= maxRetries
MaxRetriesReached(k) == k >= MaxRetries

\* qrData.status as JSON gives it, and whether `!qrData.status` is false
QrStatuses == {"absent", "false", "true", "null", "zero", "empty", "text"}

QrStatusTruthy(st) == st \in {"true", "text"}

\* what JSON.parse makes of the body of a 2xx answer
QrBodies ==
    { [kind |-> k, ok |-> TRUE, status |-> "absent"] :
        k \in {"unparsable", "null", "primitive"} }
    \cup { [kind |-> "object", ok |-> TRUE, status |-> st] : st \in QrStatuses }

\* a skipped result answered as a failure of the gateway
QrSkippedAsFailure(error) ==
    QrReply(502, FALSE, "false", "true", "absent", error, "absent")

QrSkipped(error) ==
    QrReply(200, TRUE, "false", "true", "absent", error, "absent")

QrNotFound ==
    QrReply(200, TRUE, "false", "absent", "false", "absent", "raw_response")

QrFound == QrReply(200, TRUE, "true", "absent", "true", "absent", "qr_data")

QrFailure(http, error) ==
    QrReply(http, FALSE, "absent", "absent", "absent", error, "absent")

\* a classification that tells a missing QR code by status === false alone
QrOutcomeStrictFalse(d) ==
    IF ~d.ok THEN QrSkipped("qr_api_error")
    ELSE IF d.kind = "unparsable" THEN QrSkipped("parse_error")
    ELSE IF d.kind = "null" THEN QrSkipped("TypeError")
    ELSE IF d.kind = "object" /\ d.status = "false" THEN QrNotFound
    ELSE QrFound

\* the classification of the answer once its body is read: steps 3 to 5; a
\* body that parses to null throws into the catch of the call
QrOutcome(d) ==
    IF ~d.ok THEN QrSkipped("qr_api_error")
    ELSE IF d.kind = "unparsable" THEN QrSkipped("parse_error")
    ELSE IF d.kind = "null" THEN QrSkipped("TypeError")
    ELSE IF d.kind = "primitive" \/ ~QrStatusTruthy(d.status) THEN QrNotFound
    ELSE QrFound

QrReturn(reply) ==
    /\ qrPc' = "done"
    /\ qrResult' = reply

\* fetch(qrApiUrl, { body: { file_path: fileUrl }, signal }) with the abort
\* timer started just before it
QrIssue(made, fileUrl) ==
    /\ qrPc' = "q_fetch"
    /\ qrCalls' = Append(made, [ep |-> "qr_api", url |-> fileUrl,
                                expires |-> 0])
    /\ qrTimer' = "armed"
    /\ qrElapsed' = 0
    /\ UNCHANGED qrResult

\* a timer left running when the headers arrive
TimerAfterHeadersKept == "armed"

\* clearTimeout(timeoutId) follows the await of fetch
TimerAfterHeaders == "cleared"

\* extractQRCode from its entry to its first call, or to its response
QrEnter(path) ==
    IF ~Truthy(path)
    THEN QrReturn(QrFailure(400, "file_path is required"))
         /\ qrCalls' = <<>> /\ qrTimer' = "none" /\ qrElapsed' = 0
    ELSE IF path.ty # "string"
    THEN QrReturn(QrFailure(200, "extraction_error"))
         /\ qrCalls' = <<>> /\ qrTimer' = "none" /\ qrElapsed' = 0
    ELSE IF StartsWith(path.s, BucketPrefix)
    THEN /\ qrPc' = "q_sign"
         /\ qrCalls' = <<[ep |-> "createSignedUrl", url |-> path.s,
                          expires |-> SignedUrlExpiry]>>
         /\ qrTimer' = "none"
         /\ qrElapsed' = 0
         /\ UNCHANGED qrResult
    ELSE QrIssue(<<>>, path.s)

\* a request body that is not JSON: the outer catch of the route
QrBadBody(route) ==
    /\ qrRoute' = route
    /\ filePath' = Undef
    /\ qrSubmission' = FALSE
    /\ retryCount' = Undef
    /\ QrReturn(IF route = "qr-extract" THEN QrFailure(200, "extraction_error")
                ELSE QrFailure(500, "retry_error"))

QrExtractAccept ==
    /\ qrPc \in {"idle", "done"}
    /\ qrWaits' = <<>>
    /\ qrData' = NoQrData
    /\ UNCHANGED nonQrVars
    /\ \/ /\ QrBadBody("qr-extract")
          /\ qrCalls' = <<>> /\ qrTimer' = "none" /\ qrElapsed' = 0
       \/ \E path \in FilePaths :
            /\ qrRoute' = "qr-extract"
            /\ filePath' = path
            /\ qrSubmission' = FALSE
            /\ retryCount' = Undef
            /\ QrEnter(path)

QrRetryAccept ==
    /\ qrPc \in {"idle", "done"}
    /\ qrWaits' = <<>>
    /\ qrData' = NoQrData
    /\ UNCHANGED nonQrVars
    /\ \/ /\ QrBadBody("qr-retry")
          /\ qrCalls' = <<>> /\ qrTimer' = "none" /\ qrElapsed' = 0
       \/ \E path \in FilePaths, sub \in BOOLEAN, count \in RetryCounts :
            /\ qrRoute' = "qr-retry"
            /\ filePath' = path
            /\ qrSubmission' = sub
            /\ retryCount' = count
            /\ IF ~Truthy(path) \/ ~sub
               THEN /\ QrReturn(QrFailure(400, "file_path and submission_id are required"))
                    /\ qrCalls' = <<>> /\ qrTimer' = "none" /\ qrElapsed' = 0
               ELSE IF MaxRetriesReached(RetryCountOf(count))
               THEN /\ QrReturn(QrFailure(400, "max_retries_reached"))
                    /\ qrCalls' = <<>> /\ qrTimer' = "none" /\ qrElapsed' = 0
               ELSE /\ qrPc' = "q_wait"
                    /\ qrResult' = NoQrReply
                    /\ qrCalls' = <<>> /\ qrTimer' = "none" /\ qrElapsed' = 0

\* a retry that invokes the extraction without waiting
QrWaitSkipped ==
    /\ qrPc = "q_wait"
    /\ QrEnter(filePath)
    /\ UNCHANGED <<nonQrVars, qrRoute, filePath, qrSubmission, retryCount,
                   qrData, qrWaits>>

\* the backoff wait is over: return extractQRCode(c)
QrWait ==
    /\ qrPc = "q_wait"
    /\ qrWaits' = Append(qrWaits, BackoffDelay(RetryCountOf(retryCount)))
    /\ QrEnter(filePath)
    /\ UNCHANGED <<nonQrVars, qrRoute, filePath, qrSubmission, retryCount,
                   qrData>>

\* createSignedUrl(filePath, 3600) answers with data, an error, or neither
QrSign ==
    \E got \in {"data", "error", "nodata"} :
        /\ qrPc = "q_sign"
        /\ IF got # "data"
           THEN QrReturn(QrFailure(500, "signed_url_error"))
                /\ UNCHANGED <<qrCalls, qrTimer, qrElapsed>>
           ELSE QrIssue(qrCalls, <<"signedUrl">>)
        /\ UNCHANGED <<nonQrVars, qrRoute, filePath, qrSubmission, retryCount,
                       qrData, qrWaits>>

\* time passes while the answer is awaited: up to the abort while the timer
\* is armed, further once it is cleared
QrTick ==
    /\ qrPc \in {"q_fetch", "q_body"}
    /\ qrElapsed < IF qrTimer = "armed" THEN QrTimeoutMs
                   ELSE QrTimeoutMs + MaxStallSteps * QrStep
    /\ qrElapsed' = qrElapsed + QrStep
    /\ UNCHANGED <<nonQrVars, qrPc, qrRoute, filePath, qrSubmission,
                   retryCount, qrData, qrWaits, qrTimer, qrCalls, qrResult>>

\* the fetch settles: the headers of an answer arrive, or it rejects with a
\* network error or a connect timeout
QrHeaders ==
    \E got \in {"ok", "status", "network", "ETIMEDOUT"} :
        /\ qrPc = "q_fetch"
        /\ IF got \in {"ok", "status"}
           THEN /\ qrPc' = "q_body"
                /\ qrTimer' = TimerAfterHeaders
                /\ qrData' = [kind |-> "none", ok |-> got = "ok",
                              status |-> "absent"]
                /\ UNCHANGED qrResult
           ELSE /\ qrTimer' = "cleared"
                /\ QrReturn(QrSkipped(IF got = "network" THEN "error.message"
                                      ELSE "timeout"))
                /\ UNCHANGED qrData
        /\ UNCHANGED <<nonQrVars, qrRoute, filePath, qrSubmission, retryCount,
                       qrWaits, qrElapsed, qrCalls>>

\* the timer fires: controller.abort() rejects the pending await with an
\* AbortError
QrAbort ==
    /\ qrPc \in {"q_fetch", "q_body"}
    /\ qrTimer = "armed"
    /\ qrElapsed >= QrTimeoutMs
    /\ qrTimer' = "fired"
    /\ QrReturn(QrSkipped("timeout"))
    /\ UNCHANGED <<nonQrVars, qrRoute, filePath, qrSubmission, retryCount,
                   qrData, qrWaits, qrElapsed, qrCalls>>

\* response.text() settles: the body is read and classified, or the read
\* rejects with a network error
QrBody ==
    \E got \in {"text", "network"} :
    \E body \in IF got = "network" THEN {qrData}
                ELSE IF qrData.ok THEN QrBodies
                ELSE {[kind |-> "unparsed", ok |-> FALSE, status |-> "absent"]} :
        /\ qrPc = "q_body"
        /\ qrData' = body
        /\ qrTimer' = IF got = "network" \/ body.kind = "null" THEN "cleared"
                      ELSE qrTimer
        /\ QrReturn(IF got = "network" THEN QrSkipped("error.message")
                    ELSE QrOutcome(body))
        /\ UNCHANGED <<nonQrVars, qrRoute, filePath, qrSubmission, retryCount,
                       qrWaits, qrElapsed, qrCalls>>

InitQr ==
    /\ credentials = TRUE
    /\ KlearIdle
    /\ responseText = <<>>
    /\ document = <<>>
    /\ parsed = NotParsed
    /\ gstApiKey = TRUE
    /\ GstIdle
    /\ QrIdle
    /\ KafkaIdle
    /\ DisputeIdle
    /\ AuthIdle

NextQr ==
    \/ QrExtractAccept
    \/ QrRetryAccept
    \/ QrWait
    \/ QrSign
    \/ QrTick
    \/ QrHeaders
    \/ QrAbort
    \/ QrBody

SpecQr == InitQr /\ [][NextQr]_vars

(***************************************************************************)
(* uploadFile (unnamed/part_000 161-300), createInvoice (invoices.tsx      *)
(* 319-393) and sendToKafka (external-auth.tsx 264-309): the primary write *)
(* and the publish of its notification.                                    *)
(***************************************************************************)
\* how many requests are followed
MaxRequests == 2

\* uploadFile once sendToKafka settled: the catch around the await keeps a
\* failed publish from the response
UploadFileReplyOnPublish(publish) ==
    IF publish = "sent" THEN InvoiceReply(200, TRUE)
    ELSE InvoiceReply(500, FALSE)

UploadFileReply(publish) == InvoiceReply(200, TRUE)

\* sendToKafka settles: uploadFile answers; createInvoice has answered and
\* its .catch() takes the rejection
KafkaSettle ==
    /\ kPc' = "done"
    /\ kResponse' = IF kOp = "uploadFile" THEN UploadFileReply(kPublish)
                    ELSE kResponse

\* uploadFile up to the call of sendToKafka: the fields are checked, the
\* object is uploaded, a signed URL or its fallback is taken
UploadFileAccept ==
    \E fields \in BOOLEAN, up \in {"ok", "error", "exception"},
       written \in BOOLEAN :
        /\ kPc \in {"idle", "done"}
        /\ kReq < MaxRequests
        /\ kReq' = kReq + 1
        /\ kOp' = "uploadFile"
        /\ kPublish' = "none"
        /\ IF ~fields
           THEN /\ kPc' = "done"
                /\ kResponse' = InvoiceReply(400, FALSE)
                /\ UNCHANGED <<kStored, kErrFiles>>
           ELSE IF up # "ok"
           THEN /\ kPc' = "done"
                /\ kResponse' = InvoiceReply(500, FALSE)
                /\ kErrFiles' = IF written THEN kErrFiles \cup {kReq'}
                                ELSE kErrFiles
                /\ UNCHANGED kStored
           ELSE /\ kPc' = "k_connect"
                /\ kResponse' = NoInvoiceReply
                /\ kStored' = kStored \cup {kReq'}
                /\ UNCHANGED kErrFiles
        /\ UNCHANGED <<nonKafkaVars, kProducer, kTopic>>

\* createInvoice up to its return: the row is inserted, the response is
\* built, sendToKafka is started and not awaited
CreateInvoiceAccept ==
    \E db \in {"ok", "error", "no_id", "throws"} :
        /\ kPc \in {"idle", "done"}
        /\ kReq < MaxRequests
        /\ kReq' = kReq + 1
        /\ kOp' = "createInvoice"
        /\ kPublish' = "none"
        /\ IF db = "ok"
           THEN /\ kPc' = "k_connect"
                /\ kResponse' = InvoiceReply(201, TRUE)
                /\ kStored' = kStored \cup {kReq'}
           ELSE /\ kPc' = "done"
                /\ kResponse' = InvoiceReply(500, FALSE)
                /\ kStored' = IF db = "no_id" THEN kStored \cup {kReq'}
                              ELSE kStored
        /\ UNCHANGED <<nonKafkaVars, kProducer, kTopic, kErrFiles>>

\* getKafkaProducer: producer.connect()
KafkaConnect ==
    \E connected \in BOOLEAN :
        /\ kPc = "k_connect"
        /\ kProducer' = connected
        /\ kPc' = IF connected THEN "k_send" ELSE "k_errfile"
        /\ kPublish' = IF connected THEN kPublish ELSE "connect_failed"
        /\ UNCHANGED <<nonKafkaVars, kOp, kReq, kStored, kResponse, kTopic,
                       kErrFiles>>

\* producer.send()
KafkaSend ==
    \E sent \in BOOLEAN :
        /\ kPc = "k_send"
        /\ kPc' = IF sent THEN "k_disconnect" ELSE "k_errfile"
        /\ kPublish' = IF sent THEN "sent" ELSE "send_failed"
        /\ kTopic' = IF sent THEN kTopic \cup {kReq} ELSE kTopic
        /\ UNCHANGED <<nonKafkaVars, kOp, kReq, kStored, kResponse,
                       kProducer, kErrFiles>>

\* the catch of sendToKafka: createKafkaErrorFile, which never throws, then
\* the error is thrown again
KafkaErrorFile ==
    \E written \in BOOLEAN :
        /\ kPc = "k_errfile"
        /\ kErrFiles' = IF written THEN kErrFiles \cup {kReq} ELSE kErrFiles
        /\ IF kProducer
           THEN kPc' = "k_disconnect" /\ UNCHANGED kResponse
           ELSE KafkaSettle
        /\ UNCHANGED <<nonKafkaVars, kOp, kReq, kStored, kPublish, kProducer,
                       kTopic>>

\* the finally of sendToKafka: producer.disconnect(), its error only logged
KafkaDisconnect ==
    \E disconnected \in BOOLEAN :
        /\ kPc = "k_disconnect"
        /\ kProducer' = FALSE
        /\ KafkaSettle
        /\ UNCHANGED <<nonKafkaVars, kOp, kReq, kStored, kPublish, kTopic,
                       kErrFiles>>

InitKafka ==
    /\ credentials = TRUE
    /\ KlearIdle
    /\ responseText = <<>>
    /\ document = <<>>
    /\ parsed = NotParsed
    /\ gstApiKey = TRUE
    /\ GstIdle
    /\ QrIdle
    /\ KafkaIdle
    /\ DisputeIdle
    /\ AuthIdle

NextKafka ==
    \/ UploadFileAccept
    \/ CreateInvoiceAccept
    \/ KafkaConnect
    \/ KafkaSend
    \/ KafkaErrorFile
    \/ KafkaDisconnect

SpecKafka == InitKafka /\ [][NextKafka]_vars

(***************************************************************************)
(* createDispute, resolveDispute, reopenDispute with                       *)
(* updateInvoiceDisputeStatus and checkAndUpdateInvoiceStatus,             *)
(* unnamed/part_001 51-184 and 283-363.  Each datastore call is one step;  *)
(* the steps of two requests interleave.                                   *)
(***************************************************************************)
\* .neq('status', 'Resolved'): the disputes of the invoice not Resolved
Unresolved(rows) == {d \in DisputeIds : rows[d] \in {"Raised", "Reopened"}}

\* the request starts the helper, or ends when its own write failed
DisputeWritten(r, op, ok) ==
    /\ dOp' = [dOp EXCEPT ![r] = op]
    /\ dPc' = [dPc EXCEPT ![r] = IF ok THEN "d_query" ELSE "done"]

\* the insert or update of the dispute row, which the helper follows
DisputeStart(r) ==
    /\ dPc[r] \in {"idle", "done"}
    /\ UNCHANGED <<nonDisputeVars, invoice, dSeen>>
    /\ \E d \in DisputeIds, ok \in BOOLEAN :
        \/ /\ disputes[d] = "none"
           /\ disputes' = IF ok THEN [disputes EXCEPT ![d] = "Raised"]
                          ELSE disputes
           /\ DisputeWritten(r, "createDispute", ok)
        \/ /\ disputes' = IF ok /\ disputes[d] # "none"
                          THEN [disputes EXCEPT ![d] = "Resolved"]
                          ELSE disputes
           /\ DisputeWritten(r, "resolveDispute", ok /\ disputes[d] # "none")
        \/ /\ disputes' = IF ok /\ disputes[d] # "none"
                          THEN [disputes EXCEPT ![d] = "Reopened"]
                          ELSE disputes
           /\ DisputeWritten(r, "reopenDispute", ok /\ disputes[d] # "none")

\* the helper counts the unresolved disputes; checkAndUpdateInvoiceStatus
\* goes on when there is none, updateInvoiceDisputeStatus when there is one
DisputeQuery(r) ==
    \E ok \in BOOLEAN :
        /\ dPc[r] = "d_query"
        /\ dSeen' = [dSeen EXCEPT ![r] = IF ok THEN Cardinality(Unresolved(disputes))
                                        ELSE 0]
        /\ dPc' = [dPc EXCEPT ![r] =
                     IF ok /\ ( (dOp[r] = "resolveDispute")
                                   <=> (Unresolved(disputes) = {}) )
                     THEN "d_read" ELSE "done"]
        /\ UNCHANGED <<nonDisputeVars, disputes, invoice, dOp>>

\* the helper reads the invoice record
DisputeRead(r) ==
    \E ok \in BOOLEAN :
        /\ dPc[r] = "d_read"
        /\ dPc' = [dPc EXCEPT ![r] = IF ok THEN "d_write" ELSE "done"]
        /\ UNCHANGED <<nonDisputeVars, disputes, invoice, dOp, dSeen>>

\* the helper writes the invoice record; an error of the update is not read
DisputeWrite(r) ==
    \E ok \in BOOLEAN :
        /\ dPc[r] = "d_write"
        /\ invoice' = IF ~ok THEN invoice
                      ELSE IF dOp[r] = "resolveDispute" THEN InvoicePending
                      ELSE InvoiceDisputed(dSeen[r])
        /\ dPc' = [dPc EXCEPT ![r] = "done"]
        /\ UNCHANGED <<nonDisputeVars, disputes, dOp, dSeen>>

InitDispute ==
    /\ credentials = TRUE
    /\ KlearIdle
    /\ responseText = <<>>
    /\ document = <<>>
    /\ parsed = NotParsed
    /\ gstApiKey = TRUE
    /\ GstIdle
    /\ QrIdle
    /\ KafkaIdle
    /\ DisputeIdle
    /\ AuthIdle

NextDispute ==
    \E r \in DisputeRequests :
        \/ DisputeStart(r)
        \/ DisputeQuery(r)
        \/ DisputeRead(r)
        \/ DisputeWrite(r)

SpecDispute == InitDispute /\ [][NextDispute]_vars

(***************************************************************************)
(* external-login, validate-session, check-permission, check-role and      *)
(* logout for one session token, external-auth.tsx 19-240.                 *)
(***************************************************************************)
\* how far the clock of the auth routes goes, in steps of half a lifetime
MaxAuthSteps == 3

\* expiresAt: Date.now() + 24 * 60 * 60 * 1000
SessionTtl == 86400000

AuthStep == SessionTtl \div 2

\* authenticate_external_user, then the upsert of session:<token>
ExternalLogin ==
    \E user \in {"none", "plain", "granted"}, stored \in BOOLEAN :
        /\ ~aToken
        /\ IF user = "none"
           THEN /\ aResult' = AuthReply("external-login", 401, FALSE, aNow)
                /\ UNCHANGED <<aToken, aRow, aExpiry, aGrant>>
           ELSE IF ~stored
           THEN /\ aResult' = AuthReply("external-login", 500, FALSE, aNow)
                /\ UNCHANGED <<aToken, aRow, aExpiry, aGrant>>
           ELSE /\ aResult' = AuthReply("external-login", 200, TRUE, aNow)
                /\ aToken' = TRUE
                /\ aRow' = TRUE
                /\ aExpiry' = aNow + SessionTtl
                /\ aGrant' = (user = "granted")
        /\ UNCHANGED <<nonAuthVars, aLoggedOut, aNow>>

AuthTick ==
    /\ aNow < MaxAuthSteps * AuthStep
    /\ aNow' = aNow + AuthStep
    /\ UNCHANGED <<nonAuthVars, aToken, aRow, aExpiry, aGrant, aLoggedOut,
                   aResult>>

\* validate-session: the row is read, an expired session is deleted
ValidateSession ==
    \E got \in BOOLEAN, deleted \in BOOLEAN :
        /\ aToken
        /\ IF ~got \/ ~aRow
           THEN /\ aResult' = AuthReply("validate-session", 401, FALSE, aNow)
                /\ UNCHANGED aRow
           ELSE IF aExpiry < aNow
           THEN /\ aResult' = AuthReply("validate-session", 401, FALSE, aNow)
                /\ aRow' = ~deleted
           ELSE /\ aResult' = AuthReply("validate-session", 200, TRUE, aNow)
                /\ UNCHANGED aRow
        /\ UNCHANGED <<nonAuthVars, aToken, aExpiry, aGrant, aLoggedOut,
                       aNow>>

\* check-permission and check-role: the row is read and searched
CheckGrant(route) ==
    \E got \in BOOLEAN :
        /\ aToken
        /\ aResult' = AuthReply(route, 200, got /\ aRow /\ aGrant, aNow)
        /\ UNCHANGED <<nonAuthVars, aToken, aRow, aExpiry, aGrant,
                       aLoggedOut, aNow>>

\* logout: the row is deleted, the outcome of the delete is not read
Logout ==
    \E deleted \in BOOLEAN :
        /\ aToken
        /\ aRow' = (aRow /\ ~deleted)
        /\ aLoggedOut' = TRUE
        /\ aResult' = AuthReply("logout", 200, FALSE, aNow)
        /\ UNCHANGED <<nonAuthVars, aToken, aExpiry, aGrant, aNow>>

InitAuth == InitDispute

NextAuth ==
    \/ ExternalLogin
    \/ AuthTick
    \/ ValidateSession
    \/ CheckGrant("check-permission")
    \/ CheckGrant("check-role")
    \/ Logout

SpecAuth == InitAuth /\ [][NextAuth]_vars

(***************************************************************************)
(* Properties of the handlers.                                             *)
(***************************************************************************)
\* the classes of the tri-state mapping for a status value: by the lower-cased
\* text, and processing for everything else
TriState(v) ==
    IF v.ty = "string" /\ toLowerCase(v.s) \in
           {<<"c", "o", "m", "p", "l", "e", "t", "e", "d">>,
            <<"c", "o", "m", "p", "l", "e", "t", "e">>}
    THEN "complete"
    ELSE IF v.ty = "string" /\ toLowerCase(v.s) \in
           {<<"f", "a", "i", "l", "e", "d">>, <<"e", "r", "r", "o", "r">>}
    THEN "failed"
    ELSE "processing"

\* C1: in poll-status a parsed 2xx status response is answered with the
\* tri-state class of its status value: complete, failed, and processing for
\* every other value, non-text values included (a failed write of the
\* extracted record apart, which is answered 500 before the classification)
C1_StatusClassified ==
    (handler = "poll-status" /\ pc = "done" /\ data # NoData) =>
        \/ /\ result.http = 200
           /\ result.status = TriState(ExtractionStatusOf(data))
        \/ HasResults(data) /\ result = ErrorResponse(500)

\* C2: in the polling loop a status response classified failed ends the
\* request in that attempt with status failed: the status call is the last
\* call made, and no wait follows it
C2_FailedEndsLoop ==
    (handler = "poll-completion" /\ data # NoData
        /\ TriState(ExtractionStatusOf(data)) = "failed") =>
        /\ pc = "done"
        /\ result = Response(200, "false", "failed", "absent", "", attempts, -1)
        /\ sleeps = attempts - 1
        /\ Len(calls) = 3
        /\ calls[3].ep = "status"

C2_Witness ==
    /\ handler = "poll-completion"
    /\ pc = "done"
    /\ result.status = "failed"
    /\ attempts >= 2

\* C3 as stated: whenever a status response classifies as complete the loop
\* persists the payload and returns complete in that attempt
C3_CompleteAlwaysReturned ==
    (handler = "poll-completion" /\ data # NoData
        /\ TriState(ExtractionStatusOf(data)) = "complete") =>
        /\ pc = "done"
        /\ result.status = "complete"
        /\ kvExtracted[submissionId].batch_id = batchId

\* C3 amended: on a status response classified complete the loop returns
\* complete with the payload in that attempt, after writing the extracted
\* record when the response has a non-empty results array and writing
\* nothing otherwise; when that write throws, the attempt ends like a failed
\* attempt, in the wait, with nothing written and nothing returned
C3_CompleteReturnedOrWriteFailed ==
    [][ (pc = "c_status" /\ data' # NoData
            /\ TriState(ExtractionStatusOf(data')) = "complete") =>
        IF data'.results = "nonempty"
        THEN \/ /\ pc' = "done"
                /\ result'.status = "complete"
                /\ result'.payload = "results"
                /\ result'.attempts = attempts
                /\ kvExtracted' =
                       [kvExtracted EXCEPT ![submissionId] =
                           [batch_id |-> batchId,
                            document_data |-> "results[0]"]]
             \/ /\ pc' = "c_sleep"
                /\ UNCHANGED <<result, kvExtracted>>
        ELSE /\ pc' = "done"
             /\ result'.status = "complete"
             /\ result'.payload # "absent"
             /\ result'.attempts = attempts
             /\ UNCHANGED kvExtracted ]_vars

\* the write of the extracted record failed: the loop waits for the next
\* attempt although the response classified as complete
C3_Witness ==
    /\ handler = "poll-completion"
    /\ pc = "c_sleep"
    /\ data # NoData
    /\ TriState(ExtractionStatusOf(data)) = "complete"

\* C4: with maxDuration 0 and both parameters present the request ends in
\* timeout without an attempt: no token call, no status call
C4_ZeroBudget ==
    (handler = "poll-completion" /\ maxDuration = Num(0)
        /\ submissionId # "" /\ batchId # "") =>
        /\ called = {}
        /\ calls = <<>>
        /\ attempts = 0
        /\ sleeps = 0
        /\ pc \in {"c_loop", "done"}
        /\ pc = "done" =>
              /\ result.status = "timeout"
              /\ result.attempts = 0

C4_Witness ==
    /\ handler = "poll-completion"
    /\ maxDuration = Num(0)
    /\ pc = "done"
    /\ result.status = "timeout"

\* the budget of a request: what the caller supplied, 300000 when omitted
Budget == IF maxDuration.ty = "undefined" THEN 300000 ELSE maxDuration.n

\* C5: an attempt starts and runs only after the loop found the time since
\* the request's own start below the budget, and timeout is returned only
\* when that time has reached the budget, with the attempt count and the
\* elapsed time
C5_BudgetFromOwnStart ==
    handler = "poll-completion" =>
        /\ pc = "c_token" => now - startTime < Budget
        /\ (pc = "done" /\ result.status = "timeout") =>
              /\ result.duration >= Budget
              /\ result.duration = now - startTime
              /\ result.attempts = attempts
        /\ (pc = "done" /\ result.status \in {"complete", "failed"}) =>
              now - startTime < Budget

\* the default budget runs out after attempts were made
C5_Witness ==
    /\ handler = "poll-completion"
    /\ maxDuration = Undef
    /\ pc = "done"
    /\ result.status = "timeout"
    /\ result.duration >= 300000
    /\ result.attempts >= 1

\* C6: the attempts made never exceed floor(maxDuration / 5000)
C6_AttemptsWithinIterationBudget ==
    handler = "poll-completion" => attempts <= Budget \div 5000

\* C7: with valid parameters the loop answers only complete, failed or
\* timeout, each for its reason; every attempt that did not end the request
\* was followed by one wait of at least 5000 ms
C7_FailuresAbsorbed ==
    (handler = "poll-completion" /\ submissionId # "" /\ batchId # "") =>
        /\ pc = "done" =>
              /\ result.http = 200
              /\ result.status \in {"complete", "failed", "timeout"}
              /\ result.status \in {"complete", "failed"} =>
                    /\ data # NoData
                    /\ TriState(ExtractionStatusOf(data)) = result.status
                    /\ sleeps = attempts - 1
              /\ result.status = "timeout" =>
                    /\ sleeps = attempts
                    /\ now - startTime >= Budget
        /\ pc = "c_loop" => sleeps = attempts
        /\ pc \in {"c_token", "c_refresh", "c_status", "c_sleep"} =>
              sleeps = attempts - 1
        /\ now - startTime >= sleeps * 5000

\* every attempt failed at the token call, and the request ended in timeout
C7_Witness ==
    /\ handler = "poll-completion"
    /\ pc = "done"
    /\ result.status = "timeout"
    /\ attempts >= 2
    /\ called = {"token"}

\* a call that needs the refreshed token
Privileged(call) == call.ep \in {"upload", "status"}

\* C8: a privileged call is preceded, in its request or attempt, by the
\* issuance and then the refresh; it carries the access token that refresh
\* returned, and the refresh carries the access token that issuance returned
C8_BearerFromRefresh ==
    \A i \in 1..Len(calls) :
        Privileged(calls[i]) =>
            /\ i >= 3
            /\ calls[1].ep = "token"
            /\ calls[2].ep = "refresh"
            /\ calls[2].auth = [ep |-> "issue_access", n |-> attempts]
            /\ calls[i].auth = [ep |-> "refresh_access", n |-> attempts]
            /\ \A j \in 1..Len(calls) :
                   calls[j].auth.ep = "issue_access" => j = 2

\* C9: the privileged call is made only after an issuance that returned an
\* access and a refresh token and a refresh that returned an access token
C9_NoCallWithoutTokens ==
    \A i \in 1..Len(calls) :
        Privileged(calls[i]) =>
            /\ initialAccessToken # NoTok
            /\ initialRefreshToken # NoTok
            /\ newAccessToken # NoTok

\* C10: upload-invoice never calls the batch-status endpoint and never
\* waits; after the upload call it has returned, and its success response
\* reports processing with the batch id it stored
C10_UploadReturnsAtBatchId ==
    handler = "upload-invoice" =>
        /\ "status" \notin called
        /\ sleeps = 0
        /\ "upload" \in called => pc = "done"
        /\ (pc = "done" /\ result.success = "true") =>
              /\ result.status = "processing"
              /\ result.batchId # ""
              /\ kvBatch[submissionId].batch_id = result.batchId
              /\ calls[Len(calls)].ep = "upload"

C10_Witness ==
    /\ handler = "upload-invoice"
    /\ pc = "done"
    /\ result.success = "true"
    /\ result.status = "processing"


\* C11: the batch reference of a submission is written only by upload-invoice,
\* after the download gave data, the upload call returned success and a batch
\* id was found in its body; a request that ends in an error leaves every
\* batch reference as it was, and no upload call follows a failed download
C11_BatchReferenceFrame ==
    [][ /\ kvBatch' # kvBatch =>
              /\ handler = "upload-invoice"
              /\ pc = "u_upload"
              /\ fileData = "data"
              /\ calls'[Len(calls')].ep = "upload"
              /\ result'.http = 200
              /\ result'.success = "true"
              /\ result'.batchId # ""
              /\ result'.batchId \in {uploadData'.OCR_ref_no,
                                      uploadData'.OCR_ext_no,
                                      uploadData'.batch_id}
              /\ kvBatch' = [kvBatch EXCEPT ![submissionId] =
                                [batch_id |-> result'.batchId,
                                 file_name |-> "fileName"]]
        /\ (handler' = "upload-invoice" /\ pc' = "done"
                /\ result'.success # "true") => kvBatch' = kvBatch
        /\ (handler' = "upload-invoice" /\ fileData' # "data") =>
              "upload" \notin called' ]_vars

\* a second upload for a submission fails at the download: the reference the
\* first one stored is still there, and no upload call was made
C11_Witness ==
    /\ handler = "upload-invoice"
    /\ pc = "done"
    /\ fileData = "nodata"
    /\ result.http = 500
    /\ "upload" \notin called
    /\ kvBatch[submissionId].batch_id = "b1"

\* C12: a successful upload response with none of OCR_ref_no, OCR_ext_no and
\* batch_id ends the request with an error, and within one request no
\* provider endpoint is called twice
C12_MissingBatchIdNotRetried ==
    handler = "upload-invoice" =>
        /\ \A i, j \in 1..Len(calls) : calls[i].ep = calls[j].ep => i = j
        /\ (uploadData.OCR_ref_no = "" /\ uploadData.OCR_ext_no = ""
                /\ uploadData.batch_id = "") =>
              /\ pc = "done"
              /\ result.http = 500
              /\ result.success = "absent"
              /\ result.batchId = ""
              /\ calls[Len(calls)].ep = "upload"

C12_Witness ==
    /\ handler = "upload-invoice"
    /\ pc = "done"
    /\ uploadData.OCR_ref_no = ""
    /\ uploadData.OCR_ext_no = ""
    /\ uploadData.batch_id = ""
    /\ Len(calls) = 4

\* C14: the batch id recorded for a submission never changes once assigned
C14_BatchIdImmutable ==
    [][ \A s \in Submissions :
          kvBatch[s].batch_id # "" =>
              kvBatch'[s].batch_id = kvBatch[s].batch_id ]_vars

\* C15: a poll whose batchId is not the one recorded for its submissionId
\* makes no provider call and is answered with a client error
C15_PollNeedsRecordedBatch ==
    (handler \in {"poll-status", "poll-completion"}
        /\ kvBatch[submissionId].batch_id # batchId) =>
        /\ called = {}
        /\ sleeps = 0
        /\ pc = "done" => (result.http >= 400 /\ result.http <= 499)

\* C16: poll-status makes one status call, and writes the extracted record
\* of the submission only when the response classifies as complete
C16_ExtractedOnlyWhenComplete ==
    [][ (handler = "poll-status" /\ pc = "s_status") =>
          /\ Len(SelectSeq(calls', LAMBDA c : c.ep = "status")) = 1
          /\ kvExtracted' # kvExtracted =>
                TriState(ExtractionStatusOf(data')) = "complete" ]_vars

\* C13: for a body made of non-JSON noise, a JSON object or array and
\* trailing noise, safeParseJSON returns the value of the JSON document
C13_ParserRecoversJson ==
    parsed # NotParsed => parsed = JSONParse(document)

\* the vendor name is absent, empty, white space only, or one of the literal
\* names "null" and "undefined"
NameAbsent ==
    \/ vendorName.ty = "undefined"
    \/ \A i \in 1..Len(vendorName.s) : vendorName.s[i] = " "
    \/ vendorName.s = <<"n", "u", "l", "l">>
    \/ vendorName.s = <<"u", "n", "d", "e", "f", "i", "n", "e", "d">>

\* the tagged outcome of a response and its reason code
IsSkipped(reason) ==
    /\ gstResult.http = 200
    /\ gstResult.success
    /\ gstResult.warning
    /\ gstResult.reason = reason

IsInvalid(reason) ==
    /\ gstResult.http = 400
    /\ ~gstResult.success
    /\ gstResult.reason = reason

IsValidResult ==
    /\ gstResult.http = 200
    /\ gstResult.success
    /\ ~gstResult.warning
    /\ gstResult.reason = "absent"

ActiveRegistration ==
    /\ gstData.status_code = [ty |-> "number", s |-> <<>>, n |-> 1]
    /\ gstData.status = [ty |-> "string", s |-> <<"A", "c", "t", "i", "v", "e">>,
                         n |-> 0]

InvalidSentinel ==
    /\ gstData.status_code = [ty |-> "number", s |-> <<>>, n |-> 0]
    /\ gstData.error.ty = "string"
    /\ gstData.error.s # <<>>

EInvoiceYes ==
    gstData.einvoiceStatus = [ty |-> "string", s |-> <<"Y", "e", "s">>, n |-> 0]

\* C17: the outcome of a request is that of the first step that applies, in
\* the order name, vendor row, tax id, API key, API status, body, invalid
\* sentinel, active registration; otherwise valid
C17_FirstStepDecides ==
    gstPc = "done" =>
        IF NameAbsent THEN IsSkipped("no_vendor_name")
        ELSE IF vendor.rows # "one" THEN IsSkipped("vendor_not_found")
        ELSE IF vendor.gst_number.s = <<>> THEN IsSkipped("missing_gstin")
        ELSE IF ~gstApiKey THEN IsSkipped("api_key_missing")
        ELSE IF gstFetch = "status" THEN IsSkipped("gst_api_error")
        ELSE IF gstFetch = "unparsable" THEN IsSkipped("network_error")
        ELSE IF InvalidSentinel THEN IsInvalid("invalid_gstin")
        ELSE IF ~ActiveRegistration THEN IsInvalid("gst_inactive")
        ELSE IsValidResult

\* C18: an absent, empty or white-space name and the literal names "null"
\* and "undefined" are answered skipped no_vendor_name with HTTP 200, with
\* no query of the vendor table and no call of the GST API
C18_SentinelNamesSkipped ==
    (gstPc # "idle" /\ NameAbsent) =>
        /\ gstPc = "done"
        /\ IsSkipped("no_vendor_name")
        /\ gstResult.should_extract_qr # "true"
        /\ gstCalls = <<>>

C18_Witness ==
    /\ gstPc = "done"
    /\ vendorName.s = <<"n", "u", "l", "l">>
    /\ gstResult.reason = "no_vendor_name"
    /\ gstCalls = <<>>

C20_AlwaysStructured ==
    gstPc = "done" =>
        /\ gstResult.http \in {200, 400}
        /\ gstResult.http = 400 <=> ~gstResult.success
        /\ ( \/ gstFetch \in {"throw", "status", "unparsable"}
             \/ gstFetch = "parsed" /\ gstData.kind # "object"
             \/ (~NameAbsent /\ vendor.rows # "one") ) =>
              /\ gstResult.http = 200
              /\ gstResult.success
              /\ gstResult.warning
              /\ gstResult.reason \notin {"absent", "none"}

\* C21: a response produced after the vendor lookup found the vendor names
\* the vendor (name and internal id), and a response produced after the GST
\* API answered carries the raw body of that answer
C21_ResultsAuditable ==
    gstPc = "done" =>
        /\ (vendor.rows = "one" /\ ~vendor.error) =>
              gstResult.vendor = "name_and_id"
        /\ gstFetch \in {"status", "unparsable", "parsed"} =>
              gstResult.raw_response = "gstData"

(***************************************************************************)
(* Properties of QR extraction and its retry.                              *)
(***************************************************************************)
\* the body of the QR API answer was read
QrClassified == qrPc = "done" /\ qrData.kind \notin {"none"}

QrApiCalls == {i \in 1..Len(qrCalls) : qrCalls[i].ep = "qr_api"}

QrSignCalls == {i \in 1..Len(qrCalls) : qrCalls[i].ep = "createSignedUrl"}

\* extractQRCode was entered with a file path that is a non-empty string
QrPathSupplied ==
    /\ Truthy(filePath)
    /\ filePath.ty = "string"
    /\ \/ qrRoute = "qr-extract"
       \/ qrRoute = "qr-retry" /\ qrWaits # <<>>

\* the supplied path begins with the name of the bucket
QrBucketPath ==
    /\ Len(filePath.s) >= Len(BucketPrefix)
    /\ \A j \in 1..Len(BucketPrefix) : filePath.s[j] = BucketPrefix[j]

\* a retry request that passes both guards of retryQRExtraction
QrRetryAccepted ==
    /\ qrRoute = "qr-retry"
    /\ Truthy(filePath)
    /\ qrSubmission
    /\ RetryCountOf(retryCount) < 2

\* C22: the answer of the QR API is classified in order: non-success status
\* is skipped qr_api_error, an unparsable body is skipped parse_error, a body
\* whose status field is false or absent is not_found, anything else is
\* found; qr_available is true exactly when found
C22_ClassifiedFalseOrAbsent ==
    QrClassified =>
        /\ qrResult =
              IF ~qrData.ok THEN QrSkipped("qr_api_error")
              ELSE IF qrData.kind = "unparsable" THEN QrSkipped("parse_error")
              ELSE IF qrData.status \in {"false", "absent"} THEN QrNotFound
              ELSE QrFound
        /\ qrResult.qr_available = "true" <=> qrResult = QrFound

\* C22 as the code has it: a body that parses to null is skipped with the
\* message of the error it raises, and not_found is any falsy status field
\* (false, absent, null, 0, empty string)
C22_ClassifiedFalsy ==
    /\ QrClassified =>
          \/ ~qrData.ok /\ qrResult = QrSkipped("qr_api_error")
          \/ /\ qrData.ok /\ qrData.kind = "unparsable"
             /\ qrResult = QrSkipped("parse_error")
          \/ /\ qrData.ok /\ qrData.kind = "null"
             /\ qrResult = QrSkipped("TypeError")
          \/ /\ qrData.ok /\ qrData.kind \in {"primitive", "object"}
             /\ qrData.status \in {"false", "absent", "null", "zero", "empty"}
             /\ qrResult = QrNotFound
          \/ /\ qrData.ok /\ qrData.kind = "object"
             /\ qrData.status \in {"true", "text"}
             /\ qrResult = QrFound
    /\ qrPc = "done" =>
          (qrResult.qr_available = "true" <=>
              QrClassified /\ qrResult = QrFound)

C22_Witness ==
    /\ QrClassified
    /\ qrData.kind = "object"
    /\ qrData.status = "null"
    /\ qrResult = QrNotFound

\* C23: a QR API request is never in flight for more than 30 seconds after
\* it was issued, whether the headers or the body of the answer stall
C23_NeverWaitsBeyondTimeout ==
    qrPc \in {"q_fetch", "q_body"} => qrElapsed <= QrTimeoutMs

\* C24: storage is asked for a signed URL (one hour) exactly for a path with
\* the bucket prefix; any other path reaches the QR API as it is; a failed
\* signed URL is answered signed_url_error with no QR API call, and that is
\* the only failure once a file path is supplied
C24_SignedUrlOnlyForBucketPaths ==
    QrPathSupplied =>
        /\ \A i \in QrSignCalls :
              /\ QrBucketPath
              /\ qrCalls[i].url = filePath.s
              /\ qrCalls[i].expires = 3600
        /\ \A i \in QrApiCalls :
              qrCalls[i].url = IF QrSignCalls = {} THEN filePath.s
                               ELSE <<"signedUrl">>
        /\ (QrApiCalls # {} /\ QrSignCalls = {}) =>
              ~QrBucketPath
        /\ (qrPc = "done" /\ ~qrResult.success) =>
              /\ qrResult = QrFailure(500, "signed_url_error")
              /\ QrSignCalls # {}
              /\ QrApiCalls = {}

C24_Witness ==
    /\ qrPc = "done"
    /\ QrPathSupplied
    /\ qrResult.error = "signed_url_error"
    /\ Len(qrCalls) = 1

\* C25: once the QR API was called, every result other than found (timeout,
\* network error, non-success status, unparsable body, no QR code) is
\* answered with success true and HTTP 200
C25_NonFoundIsBenign ==
    (qrPc = "done" /\ QrApiCalls # {} /\ qrResult.qr_found # "true") =>
        /\ qrResult.success
        /\ qrResult.http = 200
        /\ qrResult.qr_available = "false"

C25_Witness ==
    /\ qrPc = "done"
    /\ qrTimer = "fired"
    /\ qrResult.error = "timeout"
    /\ qrResult.success

\* C26: a retry request with file_path and submission_id whose retry_count
\* is 2 or more is answered 400 max_retries_reached, with no wait, no signed
\* URL and no QR API call
C26_MaxRetriesIsTerminal ==
    ( /\ qrRoute = "qr-retry"
      /\ Truthy(filePath)
      /\ qrSubmission
      /\ RetryCountOf(retryCount) >= 2 ) =>
        /\ qrPc = "done"
        /\ qrResult = QrFailure(400, "max_retries_reached")
        /\ qrWaits = <<>>
        /\ qrCalls = <<>>

C26_Witness ==
    /\ qrRoute = "qr-retry"
    /\ retryCount = Num(2)
    /\ qrResult.error = "max_retries_reached"

\* C27: an accepted retry waits the entry of the table (500, 1000, 2000) at
\* retry_count, the last entry when the table has none: 500 ms for 0 (and
\* for a missing retry_count), 1000 ms for 1
C27_BackoffIsTableLookup ==
    (qrRoute = "qr-retry" /\ qrWaits # <<>>) =>
        qrWaits[1] = CASE RetryCountOf(retryCount) = 0 -> 500
                       [] RetryCountOf(retryCount) = 1 -> 1000
                       [] OTHER -> 2000

C27_Witness ==
    /\ qrRoute = "qr-retry"
    /\ retryCount = Num(1)
    /\ qrWaits = <<1000>>

\* C28: an accepted retry waits once and then runs the extraction once: the
\* wait is over before storage or the QR API is called, at most one call of
\* each is made, and a finished request makes no further call
C28_OneWaitOneAttempt ==
    qrRoute = "qr-retry" =>
        /\ Len(qrWaits) <= 1
        /\ Cardinality(QrApiCalls) <= 1
        /\ Cardinality(QrSignCalls) <= 1
        /\ qrCalls # <<>> => Len(qrWaits) = 1
        /\ QrRetryAccepted => (Len(qrWaits) = 1 <=> qrPc # "q_wait")
        /\ ~QrRetryAccepted => qrWaits = <<>> /\ qrCalls = <<>>

C28_Witness ==
    /\ QrRetryAccepted
    /\ qrPc = "done"
    /\ qrResult = QrNotFound
    /\ Len(qrWaits) = 1
    /\ Cardinality(QrApiCalls) = 1

(***************************************************************************)
(* Properties of uploadFile and createInvoice.                             *)
(***************************************************************************)
\* C29: once the upload or the insert succeeded, the response is the
\* success response whether the publish went through, could not connect or
\* could not send, and the stored object or row stays
C29_PublishNeverFailsPrimary ==
    /\ (kPc = "done" /\ kPublish \in {"sent", "connect_failed", "send_failed"}) =>
          /\ kResponse = IF kOp = "uploadFile" THEN InvoiceReply(200, TRUE)
                         ELSE InvoiceReply(201, TRUE)
          /\ kReq \in kStored
    /\ (kPc \in {"k_connect", "k_send", "k_errfile", "k_disconnect"}) =>
          /\ kReq \in kStored
          /\ kOp = "createInvoice" => kResponse = InvoiceReply(201, TRUE)
    /\ kTopic \subseteq kStored

C29_Witness ==
    /\ kPc = "done"
    /\ kOp = "uploadFile"
    /\ kPublish = "send_failed"
    /\ kResponse.success
    /\ kReq \in kStored

\* C30: when every call returns and time advances, a poll-completion request
\* in its loop is eventually answered complete, failed or timeout, and the
\* attempts it makes never exceed those its budget has room for
C30_PollTerminates ==
    /\ (handler = "poll-completion" /\ pc # "done") ~>
          (pc = "done" /\ result.status \in {"complete", "failed", "timeout"})
    /\ [](handler = "poll-completion" =>
            attempts <= MaxAttemptsOf(maxDuration) + 1)

\* a request whose status calls never showed an end ran out of budget
C30_Witness ==
    /\ handler = "poll-completion"
    /\ pc = "done"
    /\ result.status = "timeout"
    /\ "status" \in called
    /\ attempts >= 2

(***************************************************************************)
(* Further properties of validateGST, of the QR retry and of the KV rows.  *)
(***************************************************************************)
GstApiCalls == {i \in 1..Len(gstCalls) : gstCalls[i] = "gst_api"}

\* C31: the GST API is called at most once, after the vendor_master query,
\* and only for a name that is not a sentinel, a vendor row that was found
\* and has a tax id, and a configured API key; an unknown vendor is answered
\* vendor_not_found whether or not the key is configured
C31_GstApiCalledLast ==
    /\ Cardinality(GstApiCalls) <= 1
    /\ \A i \in GstApiCalls :
          /\ i > 1
          /\ gstCalls[1] = "vendor_master"
          /\ ~NameAbsent
          /\ vendor.rows = "one"
          /\ ~vendor.error
          /\ vendor.gst_number.ty = "string"
          /\ vendor.gst_number.s # <<>>
          /\ gstApiKey
    /\ gstPc = "g_fetch" => gstApiKey
    /\ (gstPc = "done" /\ ~NameAbsent /\ (vendor.error \/ vendor.rows # "one")) =>
          /\ IsSkipped("vendor_not_found")
          /\ GstApiCalls = {}

C31_Witness ==
    /\ gstPc = "done"
    /\ ~gstApiKey
    /\ vendor.rows = "empty"
    /\ IsSkipped("vendor_not_found")

\* the GST API answered with a JSON object whose status_code is 0
GstStatusCodeZero ==
    /\ gstPc = "done"
    /\ gstFetch = "parsed"
    /\ gstData.kind = "object"
    /\ gstData.status_code = [ty |-> "number", s |-> <<>>, n |-> 0]

\* C32: a body with status_code 0 is invalid_gstin (400) when it has an
\* error member and gst_inactive (400) when it has none
C32_ErrorMemberDecides ==
    GstStatusCodeZero =>
        IF gstData.error.ty # "undefined" THEN IsInvalid("invalid_gstin")
        ELSE IsInvalid("gst_inactive")

\* C32 as the code has it: invalid_gstin for a truthy error member,
\* gst_inactive for a missing or falsy one; never skipped, never valid
C32_TruthyErrorDecides ==
    GstStatusCodeZero =>
        /\ gstResult.http = 400
        /\ ~gstResult.warning
        /\ IF gstData.error.ty = "string" /\ gstData.error.s # <<>>
           THEN IsInvalid("invalid_gstin")
           ELSE IsInvalid("gst_inactive")

C32_Witness ==
    /\ GstStatusCodeZero
    /\ gstData.error = [ty |-> "string", s |-> <<>>, n |-> 0]
    /\ IsInvalid("gst_inactive")

\* C33: an extraction is attempted only for a retry_count of 0 or 1, after
\* a wait of 500 or 1000 ms
C33_AttemptsOnlyForZeroAndOne ==
    (qrRoute = "qr-retry" /\ qrWaits # <<>>) =>
        /\ RetryCountOf(retryCount) \in {0, 1}
        /\ qrWaits[1] \in {500, 1000}

\* C34: the extracted record of a submission carries the batch id of the
\* batch reference stored for that submission
C34_ExtractedOfRecordedBatch ==
    \A s \in Submissions :
        kvExtracted[s] # NoExtracted =>
            kvExtracted[s].batch_id = kvBatch[s].batch_id

\* C38: once the handler has returned, the abort timer of its QR API call is
\* cleared or has fired; no timer was set when no call was made
C38_NoTimerLeftPending ==
    /\ qrPc = "done" =>
          qrTimer \in IF QrApiCalls = {} THEN {"none"} ELSE {"cleared", "fired"}
    /\ qrTimer = "fired" => qrPc = "done"

C38_Witness ==
    /\ qrPc = "done"
    /\ qrResult = QrFound
    /\ qrTimer = "cleared"

\* what a KlearStack request does and answers: its state but for the audit
\* rows
KlearOutcome ==
    <<pc, handler, submissionId, batchId, maxDuration, loopVars, tokenVars,
      calls, called, data, result, kvVars, uploadVars>>

\* C35: whatever a step of upload-invoice or poll-status does (the call it
\* makes, the tokens it takes, the KV row it writes, the response), it also
\* does when every insert into klear_responses and klear_tokens of that step
\* reports an error and no row is stored
C35_AuditFailureChangesNothing ==
    [][ \E outcome \in {KlearOutcome'} :
          ENABLED ( /\ NextAudit
                    /\ KlearOutcome' = outcome
                    /\ audit' \subseteq audit ) ]_vars

\* upload-invoice succeeded though none of its inserts did
C35_Witness ==
    /\ handler = "upload-invoice"
    /\ pc = "done"
    /\ result.success = "true"
    /\ audit = {}

(***************************************************************************)
(* Properties of the dispute routes and of the auth routes.                *)
(***************************************************************************)
\* C36: when no dispute request is in flight, the invoice record is
\* Disputed with hasActiveDisputes and the count of its unresolved disputes
\* if it has any, and Pending without hasActiveDisputes if it has none
C36_InvoiceAgreesWithDisputes ==
    (\A r \in DisputeRequests : dPc[r] \in {"idle", "done"}) =>
        IF Unresolved(disputes) # {}
        THEN invoice = InvoiceDisputed(Cardinality(Unresolved(disputes)))
        ELSE /\ invoice.status = "Pending"
             /\ ~invoice.hasActiveDisputes

\* C37: a request made for a token after its logout, or after the expiry of
\* its session, is not answered as live: validate-session answers 401 and
\* check-permission and check-role answer false
C37_EndedSessionNeverLive ==
    ( /\ aResult.route \in {"validate-session", "check-permission", "check-role"}
      /\ aLoggedOut \/ aResult.at > aExpiry ) =>
        /\ ~aResult.live
        /\ aResult.route = "validate-session" => aResult.http = 401

====
